---- MODULE Spec2Model ----
(***************************************************************************)
(* Model of the handlers of control.go (AdGuard Home control plane).        *)
(*                                                                         *)
(* Filter lists: handleFilteringStatus, handleFilteringAddURL,              *)
(* handleFilteringRemoveURL, handleFilteringEnableURL,                      *)
(* handleFilteringDisableURL and handleFilteringRefresh.                    *)
(* TLS: validateCertificates, handleTLSValidate, handleTLSConfigure and the *)
(* goroutine it starts to restart the HTTPS listener.                       *)
(* Statistics: handleStatsTop, handleStats, handleStatsHistory,             *)
(* handleStatsReset.  Upstreams: handleTestUpstreamDNS and checkDNS.        *)
(*                                                                         *)
(* Every HTTP request runs on its own goroutine (net/http).  A worker of    *)
(* the model is one such goroutine; a handler is cut into steps at the      *)
(* places where it reads or writes the shared config.Filters slice, so     *)
(* that the interleavings of unlocked handlers are visible.  Spec runs one  *)
(* worker (requests one after the other), SpecConc runs NumWorkers.         *)
(*                                                                         *)
(* config.Filters is a Go slice: a header (pointer, length) over a backing  *)
(* array.  arr is the backing array and flen the length of the header; the  *)
(* elements of arr beyond flen are stale array cells that only a goroutine  *)
(* still ranging over an older header can read.  Capacity is not modelled:  *)
(* append grows arr in place.                                               *)
(***************************************************************************)
EXTENDS Integers, Sequences, FiniteSets, TLC

\* ---- bounds ----
NumWorkers == 2      \* goroutines serving requests in SpecConc
MaxID == 3           \* assignUniqueFilterID stops handing out IDs above this
MaxRules == 2        \* a fetched list has 0..MaxRules rules
MaxTime == 31        \* the clock stops here (minutes)
MaxRequests == 4     \* requests of a run of SpecConc
MaxBlocks == 2       \* blocks of a certificate chain text or of a key text
MaxTLSRequests == 2  \* TLS requests of a run of SpecTLS
MaxKeys == 52        \* keys of a counter mapping of the store at the start
MaxTraffic == 1      \* DNS queries counted during a run
MaxOffset == 2       \* positions past the first at which a range over a mapping may start
MaxWindows == 3      \* whole windows between the start and end of a history request
MaxAnswers == 2      \* answer records of a reply to the test query
MaxHosts == 2        \* fields of the body of an upstream test request
MaxConns == 1        \* connections being served by the HTTPS server
MaxInstalls == 2     \* install-configure requests of a run

\* ---- program constants ----
updatePeriod == 30   \* minutes
TopLimit == 50       \* "no more than 50 entries"
Second == 1          \* time.Second, the unit of the instants of the statistics
Minute == 60
Hour == 3600
Day == Hour * 24

Workers == 1..NumWorkers
SeqWorkers == {1}

\* the well-formed URLs of the model; requests also carry a malformed one
\* ("bad") and the empty string of a request without the parameter
ValidURLs == {"http://a", "http://b"}

\* govalidator.IsRequestURL
IsRequestURL(u) == u \in ValidURLs

VARIABLES arr, flen, nextFilterID, files, now, pc, loc, resp, served

\* the filter lists and the requests on them
filterVars == <<arr, flen, nextFilterID, files, now, pc, loc, resp, served>>

\* config.TLS, the HTTPS listener, the TLS request in flight, the handler
\* serving it (its position, its locals, its response), the goroutines
\* started to restart the listener, and the log of what happened
VARIABLES configTLS, httpsServer, tlsIn, tlsPc, tlsLoc, tlsResp, tasks, events

tlsVars == <<configTLS, httpsServer, tlsIn, tlsPc, tlsLoc, tlsResp, tasks, events>>

\* the counter store of the DNS server, the handler serving a statistics
\* request (its position, its locals) and the response to the last one
VARIABLES stats, statsPc, statsLoc, statsResp

statsVars == <<stats, statsPc, statsLoc, statsResp>>

\* the response to the last upstream test request
VARIABLES probeResp

probeVars == <<probeResp>>

\* the addresses of the configuration, the plain HTTP server, the response
\* to the last install-configure request and the goroutines started by
\* these requests
VARIABLES config, httpServer, installResp, installTasks

installVars == <<config, httpServer, installResp, installTasks>>

vars == <<filterVars, tlsVars, statsVars, probeVars, installVars>>

\* config.Filters as the handlers see it through the slice header
Filters == SubSeq(arr, 1, flen)

NoFilter == [ID |-> 0, URL |-> "", Enabled |-> FALSE, RulesCount |-> 0, LastUpdated |-> 0]

\* the local variables of a handler; before and solo are history: the
\* collection when the request was picked up, and whether no other request
\* was in flight at any moment of this one
NoLoc == [url |-> "", i |-> 0, n |-> 0, k |-> 0, found |-> FALSE, f |-> NoFilter,
          before |-> <<>>, solo |-> TRUE]

\* what the last finished request asked (the URL is empty when the body did
\* not parse or had none) and was answered: the error written (if any),
\* whether the success line was written and the number in it.  History of
\* the request: for a refresh the "force" of its query; for a refresh pass
\* the positions it fetched, those whose fetch failed and those it updated;
\* for a status whether the pass of another request was under way when it
\* read the collection
NoResp == [op |-> "none", url |-> "", err |-> "none", ok |-> FALSE, n |-> 0, q |-> "",
           tried |-> {}, failed |-> {}, updated |-> {}, torn |-> FALSE]

\* (ok, err) of filter.update and the RulesCount it leaves in the filter
FetchFailed == [err |-> TRUE, ok |-> FALSE, rules |-> 0]
Fetched(ok, n) == [err |-> FALSE, ok |-> ok, rules |-> n]
AllFetchOutcomes == {FetchFailed} \cup {Fetched(ok, n) : ok \in BOOLEAN, n \in 0..MaxRules}

\* writeAllConfigs followed by reconfigureDNSServer: which of the two failed
AllConfigOutcomes == {"none", "config", "dns"}

\* The requests and the answers of the collaborators under each
\* specification: the URLs of the requests, whether the body parses, what
\* the fetch of Add and the fetches of a refresh pass return, whether save
\* fails, what the configuration write returns, whether os.Remove can fail.
\* Spec: every kind of request and every failure.
SeqInputs ==
    [urls |-> {"http://a", "http://b", "bad", ""},
     parsed |-> BOOLEAN,
     addfetch |-> AllFetchOutcomes,
     fetch |-> AllFetchOutcomes,
     save |-> BOOLEAN,
     cfg |-> AllConfigOutcomes,
     rmfail |-> BOOLEAN,
     counted |-> FALSE]

\* SpecRefresh: Adds whose fetch succeeds, and for a list of a pass a failed
\* fetch, an unchanged list or an updated one
RefreshInputs ==
    [urls |-> {"http://a", "http://b", "bad", ""},
     parsed |-> {TRUE},
     addfetch |-> {Fetched(TRUE, n) : n \in 1..MaxRules},
     fetch |-> {FetchFailed} \cup {Fetched(ok, n) : ok \in BOOLEAN, n \in 1..MaxRules},
     save |-> {FALSE},
     cfg |-> {"none", "config"},
     rmfail |-> {FALSE},
     counted |-> FALSE]

\* SpecConc: the interleavings of up to MaxRequests well-formed requests
\* whose fetch returns one rule; only the removal of a file can fail
ConcInputs ==
    [urls |-> {"http://a", "http://b"},
     parsed |-> {TRUE},
     addfetch |-> {Fetched(TRUE, 1)},
     fetch |-> {Fetched(TRUE, 1)},
     save |-> {FALSE},
     cfg |-> {"none"},
     rmfail |-> BOOLEAN,
     counted |-> TRUE]

URLsOf(fs) == {fs[i].URL : i \in 1..Len(fs)}

\* the duplicate check looking at the first filter only
HasURL_FirstOnly(fs, u) == Len(fs) > 0 /\ fs[1].URL = u

\* the loop of lines 542-549: is there an entry with exactly this URL
HasURL(fs, u) == \E i \in 1..Len(fs) : fs[i].URL = u

\* no filter list, no request
InitFilters ==
    /\ arr = <<>>
    /\ flen = 0
    /\ nextFilterID = 1
    /\ files = {}
    /\ now = 0
    /\ pc = [w \in Workers |-> "idle"]
    /\ loc = [w \in Workers |-> NoLoc]
    /\ resp = NoResp
    /\ served = 0

\* ---- bookkeeping of requests ----

OthersIdle(w) == \A v \in Workers \ {w} : pc[v] = "idle"
AllIdle == \A v \in Workers : pc[v] = "idle"

\* the locals of the other requests in flight when worker w picks one up:
\* they are no longer alone
NotSolo(w) ==
    [v \in Workers |-> IF v # w /\ pc[v] # "idle" THEN [loc[v] EXCEPT !.solo = FALSE] ELSE loc[v]]

\* worker w is free to pick up a request; the requests of a run are counted
\* where the run is bounded
Begin(w, I) ==
    /\ pc[w] = "idle"
    /\ IF I.counted
       THEN served < MaxRequests /\ served' = served + 1
       ELSE UNCHANGED served

\* the fresh locals of a request picked up by worker w
Fresh(w) == [NoLoc EXCEPT !.before = Filters, !.solo = OthersIdle(w)]

\* the response record of a request
Resp(op, url) == [NoResp EXCEPT !.op = op, !.url = url]

\* worker w has written its response r and returns; l0 are the locals of
\* all workers before the step
Done(w, l0, r) ==
    /\ pc' = [pc EXCEPT ![w] = "idle"]
    /\ loc' = [l0 EXCEPT ![w] = NoLoc]
    /\ resp' = r
    /\ UNCHANGED <<tlsVars, statsVars, probeVars, installVars>>

\* worker w goes on to label with locals l
Goto(w, l0, label, l) ==
    /\ pc' = [pc EXCEPT ![w] = label]
    /\ loc' = [l0 EXCEPT ![w] = l]
    /\ UNCHANGED resp
    /\ UNCHANGED <<tlsVars, statsVars, probeVars, installVars>>

\* the time passes
Tick ==
    /\ \E d \in {updatePeriod, updatePeriod + 1} :
         /\ now + d <= MaxTime
         /\ now' = now + d
    /\ UNCHANGED <<arr, flen, nextFilterID, files, pc, loc, resp, served>>
    /\ UNCHANGED <<tlsVars, statsVars, probeVars, installVars>>

\* ---- Go slice primitives on (arr, flen) ----

\* append(config.Filters, f): the cell after the header's last one is written
AppendSlice(a, n, f) ==
    IF n < Len(a) THEN [a EXCEPT ![n + 1] = f] ELSE Append(SubSeq(a, 1, n), f)

\* assignUniqueFilterID
assignUniqueFilterID == nextFilterID

\* ---- handleFilteringAddURL ----

\* lines 524-553: decode the body, validate the URL, look for a duplicate,
\* assign the ID
AddStart(w, I) ==
    /\ Begin(w, I)
    /\ \E parsed \in I.parsed, url \in I.urls :
         LET l == [Fresh(w) EXCEPT !.url = url]
             r == Resp("add", url) IN
         IF ~parsed THEN
            /\ Done(w, NotSolo(w), [Resp("add", "") EXCEPT !.err = "parse"])
            /\ UNCHANGED nextFilterID
         ELSE IF url = "" THEN
            /\ Done(w, NotSolo(w), [r EXCEPT !.err = "noURL"])
            /\ UNCHANGED nextFilterID
         ELSE IF ~IsRequestURL(url) THEN
            /\ Done(w, NotSolo(w), [r EXCEPT !.err = "badURL"])
            /\ UNCHANGED nextFilterID
         ELSE IF HasURL(Filters, url) THEN
            /\ Done(w, NotSolo(w), [r EXCEPT !.err = "duplicate"])
            /\ UNCHANGED nextFilterID
         ELSE
            /\ nextFilterID <= MaxID
            /\ nextFilterID' = nextFilterID + 1
            /\ Goto(w, NotSolo(w), "add_fetch",
                    [l EXCEPT !.f = [NoFilter EXCEPT !.ID = assignUniqueFilterID,
                                                     !.URL = url,
                                                     !.Enabled = TRUE]])
    /\ UNCHANGED <<arr, flen, files, now>>

\* the checks without the one of the rule count
AddFetchError_NoRuleCheck(o, saveErr) ==
    IF o.err THEN "fetch"
    ELSE IF ~o.ok THEN "invalid"
    ELSE IF saveErr THEN "save"
    ELSE "none"

\* lines 556-583: the error of the download, of the two checks of what was
\* downloaded, or of the save, in this order; "none" when all pass
AddFetchError(o, saveErr) ==
    IF o.err THEN "fetch"
    ELSE IF o.rules = 0 THEN "norules"
    ELSE IF ~o.ok THEN "invalid"
    ELSE IF saveErr THEN "save"
    ELSE "none"

\* lines 555-583: download the contents, reject an empty or invalid list,
\* save the contents to the file of the ID
AddFetch(w, I) ==
    /\ pc[w] = "add_fetch"
    /\ \E o \in I.addfetch, saveErr \in I.save :
         LET r == Resp("add", loc[w].url)
             f == [loc[w].f EXCEPT !.RulesCount = o.rules, !.LastUpdated = now] IN
         IF AddFetchError(o, saveErr) # "none" THEN
            /\ Done(w, loc, [r EXCEPT !.err = AddFetchError(o, saveErr)])
            /\ UNCHANGED files
         ELSE
            /\ files' = files \cup {f.ID}
            /\ Goto(w, loc, "add_append", [loc[w] EXCEPT !.f = f])
    /\ UNCHANGED <<arr, flen, nextFilterID, now, served>>

\* the response of lines 588-608 once the filter is appended
AddResponse(r, f, c) ==
    IF c = "config" THEN [r EXCEPT !.err = "config"]
    ELSE IF c = "dns" THEN [r EXCEPT !.err = "dns", !.ok = TRUE, !.n = f.RulesCount]
    ELSE [r EXCEPT !.ok = TRUE, !.n = f.RulesCount]

\* lines 585-608: append, write the configuration, reconfigure, respond
AddAppend(w, I) ==
    /\ pc[w] = "add_append"
    /\ arr' = AppendSlice(arr, flen, loc[w].f)
    /\ flen' = flen + 1
    /\ \E c \in I.cfg :
         Done(w, loc, AddResponse(Resp("add", loc[w].url), loc[w].f, c))
    /\ UNCHANGED <<nextFilterID, files, now, served>>

\* httpUpdateConfigReloadDNSReturnOK (lines 78-85): one error message for
\* both failures, "OK" otherwise
UpdateConfigResponse(r, c) ==
    IF c = "none" THEN [r EXCEPT !.ok = TRUE] ELSE [r EXCEPT !.err = "config"]

\* lines 612-629, 652-669, 691-708: parse the parameters, find "url",
\* validate it; "none" when the request passes
ParamError(parsed, url) ==
    IF ~parsed THEN "parse"
    ELSE IF url = "" THEN "noURL"
    ELSE IF ~IsRequestURL(url) THEN "badURL"
    ELSE "none"

\* ---- handleFilteringRemoveURL ----

\* lines 612-633: validate, newFilters := config.Filters[:0], start ranging
\* over the header read at this point
RemoveStart(w, I) ==
    /\ Begin(w, I)
    /\ \E parsed \in I.parsed, url \in I.urls :
         LET l == [Fresh(w) EXCEPT !.url = url, !.i = 1, !.n = flen, !.k = 0]
             e == ParamError(parsed, url) IN
         IF e # "none"
         THEN Done(w, NotSolo(w), [Resp("remove", IF parsed THEN url ELSE "") EXCEPT !.err = e])
         ELSE Goto(w, NotSolo(w), "rm_loop", l)
    /\ UNCHANGED <<arr, flen, nextFilterID, files, now>>

\* os.Remove(filter.Path()): what it can return for the file of this ID
RemoveFileOutcomes(id, I) ==
    (IF id \in files THEN {"ok"} ELSE {"notexist"})
        \cup (IF TRUE \in I.rmfail THEN {"error"} ELSE {})

\* lines 633-645, one iteration: a filter of another URL is copied to the
\* front of the same backing array, the file of a matching one is removed
RemoveStep(w, I) ==
    /\ pc[w] = "rm_loop"
    /\ loc[w].i <= loc[w].n
    /\ LET l == loc[w]
           filter == arr[l.i] IN
       IF filter.URL # l.url THEN
          /\ arr' = [arr EXCEPT ![l.k + 1] = filter]
          /\ Goto(w, loc, "rm_loop", [l EXCEPT !.i = l.i + 1, !.k = l.k + 1])
          /\ UNCHANGED files
       ELSE
          \E out \in RemoveFileOutcomes(filter.ID, I) :
             IF out = "error" THEN
                /\ Done(w, loc, [Resp("remove", l.url) EXCEPT !.err = "rmfile"])
                /\ UNCHANGED <<arr, files>>
             ELSE
                /\ files' = files \ {filter.ID}
                /\ Goto(w, loc, "rm_loop", [l EXCEPT !.i = l.i + 1])
                /\ UNCHANGED arr
    /\ UNCHANGED <<flen, nextFilterID, now, served>>

\* the cells of the backing array that can still be read once worker w has
\* set the length to k: those of the new header and those another Remove
\* is still ranging over
Reachable(w, k) ==
    LET ns == {k} \cup {loc[v].n : v \in {u \in Workers \ {w} : pc[u] = "rm_loop"}}
        m == CHOOSE x \in ns : \A y \in ns : y <= x IN
    SubSeq(arr, 1, IF m < Len(arr) THEN m ELSE Len(arr))

\* lines 646-648: config.Filters = newFilters, write the configuration
RemoveFinish(w, I) ==
    /\ pc[w] = "rm_loop"
    /\ loc[w].i > loc[w].n
    /\ flen' = loc[w].k
    /\ arr' = Reachable(w, loc[w].k)
    /\ \E c \in I.cfg :
         Done(w, loc, UpdateConfigResponse(Resp("remove", loc[w].url), c))
    /\ UNCHANGED <<nextFilterID, files, now, served>>

\* ---- refreshFiltersIfNecessary ----

\* is the filter due: enabled, and forced or last fetched more than
\* updatePeriod ago
Due(f, force, t) ==
    /\ f.Enabled
    /\ (force \/ t - f.LastUpdated > updatePeriod)

\* the positions of the filters a pass fetches
RefreshTried(fs, force, t) == {i \in 1..Len(fs) : Due(fs[i], force, t)}

\* a fetched filter with the outcome o of its fetch
RefreshOne(f, o, t) ==
    IF o.err THEN f
    ELSE IF ~o.ok THEN [f EXCEPT !.LastUpdated = t]
    ELSE [f EXCEPT !.RulesCount = o.rules, !.LastUpdated = t]

\* a pass that stops at the first fetch that fails
RefreshPass_Abort(fs, force, os, t) ==
    [i \in 1..Len(fs) |->
        IF /\ i \in RefreshTried(fs, force, t)
           /\ \A j \in RefreshTried(fs, force, t) : j <= i => ~os[j].err
        THEN RefreshOne(fs[i], os[i], t) ELSE fs[i]]

\* the filters after a pass in which the fetch of filter i returns os[i]
RefreshPass(fs, force, os, t) ==
    [i \in 1..Len(fs) |->
        IF i \in RefreshTried(fs, force, t) THEN RefreshOne(fs[i], os[i], t) ELSE fs[i]]

\* the fetched filters whose fetch failed, and those that were updated
RefreshFailed(fs, force, os, t) == {i \in RefreshTried(fs, force, t) : os[i].err}
RefreshUpdated(fs, force, os, t) == {i \in RefreshTried(fs, force, t) : ~os[i].err /\ os[i].ok}

\* the return value of refreshFiltersIfNecessary
refreshFiltersIfNecessary(fs, force, os, t) == Cardinality(RefreshUpdated(fs, force, os, t))

\* the backing array after a pass over the filters of the header
RefreshArr(force, os) ==
    RefreshPass(Filters, force, os, now) \o SubSeq(arr, flen + 1, Len(arr))

\* the content files after a pass: an updated filter is saved
RefreshFiles(force, os) ==
    files \cup {Filters[i].ID : i \in RefreshUpdated(Filters, force, os, now)}

\* ---- handleFilteringEnableURL, handleFilteringDisableURL ----

\* the flag set on every cell, not on the matching one
SetEnabled_All(a, i, val) == [j \in 1..Len(a) |-> [a[j] EXCEPT !.Enabled = val]]

\* &config.Filters[i].Enabled = val: the cell i of the slice as it is now
SetEnabled(a, i, val) == [a EXCEPT ![i].Enabled = val]

\* lines 652-672: validate, start ranging over config.Filters
EnableStart(w, I) ==
    /\ Begin(w, I)
    /\ \E parsed \in I.parsed, url \in I.urls :
         LET l == [Fresh(w) EXCEPT !.url = url, !.i = 1, !.n = flen]
             e == ParamError(parsed, url) IN
         IF e # "none"
         THEN Done(w, NotSolo(w), [Resp("enable", IF parsed THEN url ELSE "") EXCEPT !.err = e])
         ELSE Goto(w, NotSolo(w), "en_loop", l)
    /\ UNCHANGED <<arr, flen, nextFilterID, files, now>>

\* lines 672-678, one iteration: &config.Filters[i] indexes the slice as it
\* is now (a run-time panic when it has become shorter than the range), and
\* a matching filter is enabled
EnableStep(w) ==
    /\ pc[w] = "en_loop"
    /\ loc[w].i <= loc[w].n
    /\ LET l == loc[w] IN
       IF l.i > flen THEN
          /\ Done(w, loc, [Resp("enable", l.url) EXCEPT !.err = "panic"])
          /\ UNCHANGED arr
       ELSE IF arr[l.i].URL = l.url THEN
          /\ arr' = SetEnabled(arr, l.i, TRUE)
          /\ Goto(w, loc, "en_loop", [l EXCEPT !.i = l.i + 1, !.found = TRUE])
       ELSE
          /\ Goto(w, loc, "en_loop", [l EXCEPT !.i = l.i + 1])
          /\ UNCHANGED arr
    /\ UNCHANGED <<flen, nextFilterID, files, now, served>>

\* lines 680-687: reject when nothing matched, else refresh (not forced)
\* and write the configuration
EnableFinish(w, I) ==
    /\ pc[w] = "en_loop"
    /\ loc[w].i > loc[w].n
    /\ IF ~loc[w].found THEN
          /\ Done(w, loc, [Resp("enable", loc[w].url) EXCEPT !.err = "notfound"])
          /\ UNCHANGED <<arr, files>>
       ELSE
          \E os \in [RefreshTried(Filters, FALSE, now) -> I.fetch], c \in I.cfg :
             /\ arr' = RefreshArr(FALSE, os)
             /\ files' = RefreshFiles(FALSE, os)
             /\ Done(w, loc,
                     UpdateConfigResponse(
                        [Resp("enable", loc[w].url) EXCEPT
                            !.tried = RefreshTried(Filters, FALSE, now),
                            !.failed = RefreshFailed(Filters, FALSE, os, now),
                            !.updated = RefreshUpdated(Filters, FALSE, os, now)], c))
    /\ UNCHANGED <<flen, nextFilterID, now, served>>

\* lines 691-711: validate, start ranging over config.Filters
DisableStart(w, I) ==
    /\ Begin(w, I)
    /\ \E parsed \in I.parsed, url \in I.urls :
         LET l == [Fresh(w) EXCEPT !.url = url, !.i = 1, !.n = flen]
             e == ParamError(parsed, url) IN
         IF e # "none"
         THEN Done(w, NotSolo(w), [Resp("disable", IF parsed THEN url ELSE "") EXCEPT !.err = e])
         ELSE Goto(w, NotSolo(w), "dis_loop", l)
    /\ UNCHANGED <<arr, flen, nextFilterID, files, now>>

\* lines 711-717, one iteration: a matching filter is disabled
DisableStep(w) ==
    /\ pc[w] = "dis_loop"
    /\ loc[w].i <= loc[w].n
    /\ LET l == loc[w] IN
       IF l.i > flen THEN
          /\ Done(w, loc, [Resp("disable", l.url) EXCEPT !.err = "panic"])
          /\ UNCHANGED arr
       ELSE IF arr[l.i].URL = l.url THEN
          /\ arr' = SetEnabled(arr, l.i, FALSE)
          /\ Goto(w, loc, "dis_loop", [l EXCEPT !.i = l.i + 1, !.found = TRUE])
       ELSE
          /\ Goto(w, loc, "dis_loop", [l EXCEPT !.i = l.i + 1])
          /\ UNCHANGED arr
    /\ UNCHANGED <<flen, nextFilterID, files, now, served>>

\* lines 719-724: reject when nothing matched, else write the configuration
DisableFinish(w, I) ==
    /\ pc[w] = "dis_loop"
    /\ loc[w].i > loc[w].n
    /\ IF ~loc[w].found
       THEN Done(w, loc, [Resp("disable", loc[w].url) EXCEPT !.err = "notfound"])
       ELSE \E c \in I.cfg :
               Done(w, loc, UpdateConfigResponse(Resp("disable", loc[w].url), c))
    /\ UNCHANGED <<arr, flen, nextFilterID, files, now, served>>

\* ---- handleFilteringRefresh ----

\* every pass forced
ForceOf_Always(q) == TRUE

\* line 741-742: the pass is forced when the query has a non-empty "force"
ForceOf(q) == q # ""

\* lines 740-744: one pass, inside the exclusive section of
\* refreshFiltersIfNecessary, and the count in the response
handleFilteringRefresh(w, I) ==
    /\ Begin(w, I)
    /\ \E q \in {"", "1"} : \E os \in [RefreshTried(Filters, ForceOf(q), now) -> I.fetch] :
         LET force == ForceOf(q) IN
         /\ arr' = RefreshArr(force, os)
         /\ files' = RefreshFiles(force, os)
         /\ Done(w, NotSolo(w),
                 [Resp("refresh", "") EXCEPT
                     !.ok = TRUE,
                     !.q = q,
                     !.n = refreshFiltersIfNecessary(Filters, force, os, now),
                     !.tried = RefreshTried(Filters, force, now),
                     !.failed = RefreshFailed(Filters, force, os, now),
                     !.updated = RefreshUpdated(Filters, force, os, now)])
    /\ UNCHANGED <<flen, nextFilterID, now>>

\* ---- handleFilteringStatus ----

\* a pass of worker v over the collection has dealt with a matching filter
\* and has not reached the end
MidPass(v) ==
    /\ loc[v].i <= loc[v].n
    /\ \/ pc[v] = "rm_loop" /\ loc[v].k < loc[v].i - 1
       \/ pc[v] \in {"en_loop", "dis_loop"} /\ loc[v].found

HalfUpdated == \E v \in Workers : MidPass(v)

\* lines 495-521: the filters are marshalled inside the shared section
handleFilteringStatus(w, I) ==
    /\ Begin(w, I)
    /\ Done(w, NotSolo(w), [Resp("status", "") EXCEPT !.ok = TRUE, !.torn = HalfUpdated])
    /\ UNCHANGED <<arr, flen, nextFilterID, files, now>>

\* ---- TLS: certificate and key texts ----

\* A text (certificate chain, private key) is a sequence of PEM blocks and of
\* bytes that are outside any block; the empty sequence is the empty string.
\* A block has its type and its DER bytes: kind is what the bytes parse as
\* ("cert", "pkcs1", "pkcs8", "sec1", or "junk" for bytes that parse as
\* nothing), also the key formats besides kind that the bytes parse as too,
\* alg and pub the algorithm and the public key of the key or of the
\* certificate, id the certificate.
JunkDER == [kind |-> "junk", also |-> {}, alg |-> "", pub |-> "", id |-> ""]

\* bytes of a text that pem.Decode passes over
Bytes == [Type |-> "", der |-> JunkDER]

\* the certificates of the model: self-signed, a leaf issued by an
\* intermediate, the intermediate issued by a root of the system store
NoCert == [id |-> "", Subject |-> "", Issuer |-> "", NotBefore |-> 0, NotAfter |-> 0,
           DNSNames |-> {}, alg |-> "", pub |-> ""]
SelfCert == [id |-> "self", Subject |-> "CN=self", Issuer |-> "CN=self", NotBefore |-> 1,
             NotAfter |-> 2, DNSNames |-> {"a.test"}, alg |-> "RSA", pub |-> "k1"]
LeafCert == [id |-> "leaf", Subject |-> "CN=leaf", Issuer |-> "CN=inter", NotBefore |-> 3,
             NotAfter |-> 4, DNSNames |-> {"a.test"}, alg |-> "ECDSA", pub |-> "k2"]
InterCert == [id |-> "inter", Subject |-> "CN=inter", Issuer |-> "CN=root", NotBefore |-> 5,
              NotAfter |-> 6, DNSNames |-> {}, alg |-> "RSA", pub |-> "k3"]
Certs == {SelfCert, LeafCert, InterCert}
TrustedRoots == {"CN=root"}

CertBlock(c) ==
    [Type |-> "CERTIFICATE", der |-> [kind |-> "cert", also |-> {}, alg |-> c.alg, pub |-> c.pub, id |-> c.id]]
BadCertBlock == [Type |-> "CERTIFICATE", der |-> JunkDER]
KeyBlock(type, kind, alg, pub) ==
    [Type |-> type, der |-> [kind |-> kind, also |-> {}, alg |-> alg, pub |-> pub, id |-> ""]]

\* the sequences of at most n elements of S
SeqsUpTo(S, n) == UNION {[1..k -> S] : k \in 0..n}

\* pem.Decode in a loop (lines 1096-1107, 1174-1186): the blocks of a text
PEMBlocks(text) == SelectSeq(text, LAMBDA b : b.Type # "")

\* x509.ParseCertificate: the certificate of the bytes, or an error
ParseCertificate(der) ==
    IF der.kind = "cert"
    THEN [err |-> FALSE, cert |-> CHOOSE c \in Certs : c.id = der.id]
    ELSE [err |-> TRUE, cert |-> NoCert]

\* Certificate.Verify (line 1146): the leaf chains to a root of the system
\* store, directly or through a certificate of the pool, and is valid for
\* the server name when one is given
Verify(mainCert, pool, serverName) ==
    /\ \/ mainCert.Issuer \in TrustedRoots
       \/ \E c \in pool : c.Subject = mainCert.Issuer /\ c.Issuer \in TrustedRoots
    /\ serverName = "" \/ serverName \in mainCert.DNSNames

\* decoded.Type == "PRIVATE KEY" || strings.HasSuffix(decoded.Type, " PRIVATE KEY")
IsPrivateKeyType(t) ==
    t \in {"PRIVATE KEY", "RSA PRIVATE KEY", "EC PRIVATE KEY", "ENCRYPTED PRIVATE KEY"}

\* the position of the first private-key block of the blocks, 0 if none
FirstKeyBlock(blocks) ==
    LET is == {i \in 1..Len(blocks) : IsPrivateKeyType(blocks[i].Type)} IN
    IF is = {} THEN 0 ELSE CHOOSE i \in is : \A j \in is : i <= j

\* x509.ParsePKCS1PrivateKey, x509.ParsePKCS8PrivateKey and
\* x509.ParseECPrivateKey return no error for the bytes
ParsesAs(der, format) == der.kind = format \/ format \in der.also

\* SEC1 is tried first, then PKCS#8, then PKCS#1
parsePrivateKey_SEC1First(der) ==
    IF ParsesAs(der, "sec1") THEN [err |-> "", keytype |-> "ECDSA"]
    ELSE IF ParsesAs(der, "pkcs8") THEN
        IF der.alg = "RSA" THEN [err |-> "", keytype |-> "RSA"]
        ELSE IF der.alg = "ECDSA" THEN [err |-> "", keytype |-> "ECDSA"]
        ELSE [err |-> "tls: found unknown private key type in PKCS#8 wrapping", keytype |-> ""]
    ELSE IF ParsesAs(der, "pkcs1") THEN [err |-> "", keytype |-> "RSA"]
    ELSE [err |-> "tls: failed to parse private key", keytype |-> ""]

\* parsePrivateKey (lines 1220-1239): PKCS#1, then PKCS#8, then SEC1
parsePrivateKey(der) ==
    IF ParsesAs(der, "pkcs1") THEN [err |-> "", keytype |-> "RSA"]
    ELSE IF ParsesAs(der, "pkcs8") THEN
        IF der.alg = "RSA" THEN [err |-> "", keytype |-> "RSA"]
        ELSE IF der.alg = "ECDSA" THEN [err |-> "", keytype |-> "ECDSA"]
        ELSE [err |-> "tls: found unknown private key type in PKCS#8 wrapping", keytype |-> ""]
    ELSE IF ParsesAs(der, "sec1") THEN [err |-> "", keytype |-> "ECDSA"]
    ELSE [err |-> "tls: failed to parse private key", keytype |-> ""]

\* tls.X509KeyPair (line 1206): the certificate blocks of the chain and the
\* first private-key block of the key text; the leaf and the key parse and
\* the key is the private key of the leaf's public key
X509KeyPair(chain, key) ==
    LET cs == SelectSeq(PEMBlocks(chain), LAMBDA b : b.Type = "CERTIFICATE")
        ks == PEMBlocks(key)
        k == FirstKeyBlock(ks) IN
    /\ Len(cs) > 0
    /\ k > 0
    /\ ~ParseCertificate(cs[1].der).err
    /\ parsePrivateKey(ks[k].der).err = ""
    /\ ks[k].der.alg = cs[1].der.alg
    /\ ks[k].der.pub = cs[1].der.pub

\* ---- TLS: tlsConfig ----

\* tlsConfigStatus{}: the zero value of the report fields
NoStatus ==
    [ValidCert |-> FALSE, ValidChain |-> FALSE, Subject |-> "", Issuer |-> "",
     NotBefore |-> 0, NotAfter |-> 0, DNSNames |-> {}, ValidKey |-> FALSE, KeyType |-> "",
     WarningValidation |-> "", usable |-> FALSE]

SettingsFields == {"Enabled", "ServerName", "PortHTTPS", "CertificateChain", "PrivateKey"}
StatusFields == DOMAIN NoStatus

\* a tlsConfig: the embedded tlsConfigSettings and tlsConfigStatus
TLSConfig(enabled, name, port, chain, key) ==
    [f \in SettingsFields \cup StatusFields |->
        CASE f = "Enabled" -> enabled
          [] f = "ServerName" -> name
          [] f = "PortHTTPS" -> port
          [] f = "CertificateChain" -> chain
          [] f = "PrivateKey" -> key
          [] OTHER -> NoStatus[f]]

\* data.tlsConfigSettings, data.tlsConfigStatus
tlsConfigSettings(d) == [f \in SettingsFields |-> d[f]]
tlsConfigStatus(d) == [f \in StatusFields |-> d[f]]

\* data.tlsConfigStatus = tlsConfigStatus{} (line 1085)
ClearStatus(d) == [f \in DOMAIN d |-> IF f \in StatusFields THEN NoStatus[f] ELSE d[f]]

\* ---- validateCertificates ----

\* the certificate counted as valid only when the chain is trusted
ValidateChain_TrustedOnly(data) ==
    LET certs == SelectSeq(PEMBlocks(data.CertificateChain), LAMBDA b : b.Type = "CERTIFICATE")
        parsedCerts == [i \in 1..Len(certs) |-> ParseCertificate(certs[i].der).cert]
        mainCert == parsedCerts[1]
        pool == {parsedCerts[i] : i \in 2..Len(parsedCerts)}
        d2 == IF Verify(mainCert, pool, data.ServerName)
              THEN [data EXCEPT !.ValidCert = TRUE, !.ValidChain = TRUE]
              ELSE [data EXCEPT !.WarningValidation = "Your certificate does not verify"] IN
    IF data.CertificateChain = <<>> THEN [ret |-> FALSE, data |-> data]
    ELSE IF \E i \in 1..Len(certs) : ParseCertificate(certs[i].der).err THEN
        [ret |-> TRUE, data |-> [data EXCEPT !.WarningValidation = "Failed to parse certificate"]]
    ELSE IF Len(parsedCerts) = 0 THEN
        [ret |-> TRUE,
         data |-> [data EXCEPT !.WarningValidation = "You have specified an empty certificate"]]
    ELSE
        [ret |-> FALSE,
         data |-> [d2 EXCEPT !.Subject = mainCert.Subject,
                             !.Issuer = mainCert.Issuer,
                             !.NotAfter = mainCert.NotAfter,
                             !.NotBefore = mainCert.NotBefore,
                             !.DNSNames = mainCert.DNSNames]]

\* lines 1088-1164: the certificate chain on its own.  ret: the function
\* returns at this point
ValidateChain(data) ==
    LET certs == SelectSeq(PEMBlocks(data.CertificateChain), LAMBDA b : b.Type = "CERTIFICATE")
        parsedCerts == [i \in 1..Len(certs) |-> ParseCertificate(certs[i].der).cert]
        mainCert == parsedCerts[1]
        pool == {parsedCerts[i] : i \in 2..Len(parsedCerts)}
        d1 == [data EXCEPT !.ValidCert = TRUE]
        d2 == IF Verify(mainCert, pool, data.ServerName)
              THEN [d1 EXCEPT !.ValidChain = TRUE]
              ELSE [d1 EXCEPT !.WarningValidation = "Your certificate does not verify"] IN
    IF data.CertificateChain = <<>> THEN [ret |-> FALSE, data |-> data]
    ELSE IF \E i \in 1..Len(certs) : ParseCertificate(certs[i].der).err THEN
        [ret |-> TRUE, data |-> [data EXCEPT !.WarningValidation = "Failed to parse certificate"]]
    ELSE IF Len(parsedCerts) = 0 THEN
        [ret |-> TRUE,
         data |-> [data EXCEPT !.WarningValidation = "You have specified an empty certificate"]]
    ELSE
        [ret |-> FALSE,
         data |-> [d2 EXCEPT !.Subject = mainCert.Subject,
                             !.Issuer = mainCert.Issuer,
                             !.NotAfter = mainCert.NotAfter,
                             !.NotBefore = mainCert.NotBefore,
                             !.DNSNames = mainCert.DNSNames]]

\* a key text without a private-key block passed over without a warning
ValidateKey_NoWarning(data) ==
    LET blocks == PEMBlocks(data.PrivateKey)
        k == FirstKeyBlock(blocks)
        parsed == parsePrivateKey(blocks[k].der) IN
    IF data.PrivateKey = <<>> THEN [ret |-> FALSE, data |-> data]
    ELSE IF k = 0 THEN [ret |-> TRUE, data |-> data]
    ELSE IF parsed.err # "" THEN
        [ret |-> TRUE, data |-> [data EXCEPT !.WarningValidation = "Failed to parse private key"]]
    ELSE
        [ret |-> FALSE, data |-> [data EXCEPT !.ValidKey = TRUE, !.KeyType = parsed.keytype]]

\* lines 1167-1202: the private key on its own
ValidateKey(data) ==
    LET blocks == PEMBlocks(data.PrivateKey)
        k == FirstKeyBlock(blocks)
        parsed == parsePrivateKey(blocks[k].der) IN
    IF data.PrivateKey = <<>> THEN [ret |-> FALSE, data |-> data]
    ELSE IF k = 0 THEN
        [ret |-> TRUE, data |-> [data EXCEPT !.WarningValidation = "No valid keys were found"]]
    ELSE IF parsed.err # "" THEN
        [ret |-> TRUE, data |-> [data EXCEPT !.WarningValidation = "Failed to parse private key"]]
    ELSE
        [ret |-> FALSE, data |-> [data EXCEPT !.ValidKey = TRUE, !.KeyType = parsed.keytype]]

\* usable set without the check of the pair
ValidatePair_NoCheck(data) ==
    IF data.PrivateKey # <<>> /\ data.CertificateChain # <<>>
    THEN [data EXCEPT !.usable = TRUE]
    ELSE data

\* lines 1205-1212: the two in unison
ValidatePair(data) ==
    IF data.PrivateKey # <<>> /\ data.CertificateChain # <<>> THEN
        IF ~X509KeyPair(data.CertificateChain, data.PrivateKey)
        THEN [data EXCEPT !.WarningValidation = "Invalid certificate or key"]
        ELSE [data EXCEPT !.usable = TRUE]
    ELSE data

\* lines 1081-1215
validateCertificates(data) ==
    LET c == ValidateChain(ClearStatus(data))
        k == ValidateKey(c.data) IN
    IF c.ret THEN c.data
    ELSE IF k.ret THEN k.data
    ELSE ValidatePair(k.data)

\* ---- TLS: requests and responses ----

\* base64 on the wire: a field of a request is the encoding of a text or a
\* string that is not base64; the encoding of the empty text is the empty
\* string
Base64Encode(text) == [valid |-> TRUE, text |-> text]
BadBase64 == [valid |-> FALSE, text |-> <<>>]
Base64Decode(v) == [err |-> ~v.valid, text |-> v.text]
EmptyString == Base64Encode(<<>>)

\* no request in flight; id counts the requests sent so far
NoTLSRequest == [op |-> "none", id |-> 0, parsed |-> TRUE, body |-> TLSConfig(FALSE, "", 0, EmptyString, EmptyString)]

\* a request: its endpoint, whether its body is JSON, and the body with the
\* two texts encoded
TLSRequest(op, parsed, body) == [op |-> op, parsed |-> parsed, body |-> body]

\* the locals of handleTLSConfigure; before is history: config.TLS when it
\* was compared with data
NoTLSLoc ==
    [data |-> TLSConfig(FALSE, "", 0, <<>>, <<>>), restartHTTPS |-> FALSE, req |-> 0,
     before |-> TLSConfig(FALSE, "", 0, <<>>, <<>>)]

\* the response to the last request: the error written, or the bundle handed
\* to marshalTLS and the body it wrote.  History of a configure request:
\* config.TLS when it was compared with the bundle
NoTLSResp ==
    [op |-> "none", req |-> 0, err |-> "none",
     data |-> TLSConfig(FALSE, "", 0, <<>>, <<>>),
     body |-> TLSConfig(FALSE, "", 0, EmptyString, EmptyString),
     before |-> TLSConfig(FALSE, "", 0, <<>>, <<>>)]

\* unmarshalTLS (lines 1242-1267): decode the JSON, then the base64 of the
\* two texts when they are not empty
unmarshalTLS(r) ==
    LET c == Base64Decode(r.body.CertificateChain)
        k == Base64Decode(r.body.PrivateKey) IN
    IF ~r.parsed THEN [err |-> TRUE, data |-> NoTLSLoc.data]
    ELSE IF r.body.CertificateChain # EmptyString /\ c.err THEN [err |-> TRUE, data |-> NoTLSLoc.data]
    ELSE IF r.body.PrivateKey # EmptyString /\ k.err THEN [err |-> TRUE, data |-> NoTLSLoc.data]
    ELSE [err |-> FALSE,
          data |-> [r.body EXCEPT !.CertificateChain = c.text, !.PrivateKey = k.text]]

\* marshalTLS (lines 1269-1284): the body written, the two texts encoded
marshalTLS(data) ==
    [data EXCEPT !.CertificateChain = IF @ # <<>> THEN Base64Encode(@) ELSE EmptyString,
                 !.PrivateKey = IF @ # <<>> THEN Base64Encode(@) ELSE EmptyString]

\* the response of a request that is answered with an error
TLSError(op, req, e) == [NoTLSResp EXCEPT !.op = op, !.req = req, !.err = e]

\* the response of a request that is answered with the bundle
TLSAnswer(op, req, data) ==
    [NoTLSResp EXCEPT !.op = op, !.req = req, !.data = data, !.body = marshalTLS(data)]

\* the request in flight has been read
TLSConsumed == tlsIn' = [NoTLSRequest EXCEPT !.id = tlsIn.id]

\* checkPortAvailable is called unless the HTTPS server is running (lines
\* 1016-1026, 1041-1051): what it can answer
PortOutcomes(I) == IF httpsServer.server THEN {TRUE} ELSE I.port

\* a client sends one of the requests R to a TLS endpoint
SendTLS(R) ==
    /\ tlsIn.op = "none"
    /\ tlsPc = "idle"
    /\ tlsIn.id < MaxTLSRequests
    /\ \E r \in R :
         tlsIn' = [op |-> r.op, id |-> tlsIn.id + 1, parsed |-> r.parsed, body |-> r.body]
    /\ UNCHANGED <<configTLS, httpsServer, tlsPc, tlsLoc, tlsResp, tasks, events>>
    /\ UNCHANGED <<filterVars, statsVars, probeVars, installVars>>

\* ---- TLS: the requests and the environment under each specification ----

RSAKey1 == KeyBlock("RSA PRIVATE KEY", "pkcs1", "RSA", "k1")
ECKey2 == KeyBlock("EC PRIVATE KEY", "sec1", "ECDSA", "k2")

\* what a certificate chain text is made of: the three certificates, a
\* certificate block that does not parse, a block of another type, bytes
ChainBlocks ==
    {CertBlock(SelfCert), CertBlock(LeafCert), CertBlock(InterCert), BadCertBlock, RSAKey1, Bytes}

\* what a key text is made of: the keys of the self-signed certificate and
\* of the leaf in the three formats, a PKCS#8 key of another algorithm, a
\* key block that does not parse, a block of another type, bytes
KeyBlocks ==
    {RSAKey1, ECKey2,
     KeyBlock("PRIVATE KEY", "pkcs8", "ECDSA", "k2"),
     KeyBlock("PRIVATE KEY", "pkcs8", "Ed25519", "k4"),
     KeyBlock("ENCRYPTED PRIVATE KEY", "junk", "", ""),
     KeyBlock("PUBLIC KEY", "junk", "", ""),
     Bytes}

\* SpecValidate: every chain and key text of at most n elements
ValidateRequests(n) ==
    {TLSRequest("validate", TRUE,
                TLSConfig(TRUE, name, 443, Base64Encode(chain), Base64Encode(key))) :
        name \in {"", "a.test", "b.test"},
        chain \in SeqsUpTo(ChainBlocks, n),
        key \in SeqsUpTo(KeyBlocks, n)}

\* SpecTLS: the settings a client submits, to either endpoint
SubmittedSettings ==
    {TLSConfig(TRUE, "", port, chain, key) :
        port \in {443, 8443},
        chain \in {Base64Encode(<<>>), Base64Encode(<<CertBlock(SelfCert)>>), BadBase64},
        key \in {Base64Encode(<<>>), Base64Encode(<<RSAKey1>>)}}

TLSRequests ==
    {TLSRequest(op, TRUE, body) : op \in {"validate", "configure"}, body \in SubmittedSettings}
        \cup {TLSRequest(op, FALSE, NoTLSRequest.body) : op \in {"validate", "configure"}}

\* what the port check and the configuration write can answer
TLSInputs == [port |-> BOOLEAN, cfg |-> AllConfigOutcomes]

\* the settings of the configuration file, report fields empty, and no
\* HTTPS server
InitTLS ==
    /\ configTLS = TLSConfig(FALSE, "", 443, <<>>, <<>>)
    /\ httpsServer = [server |-> FALSE, lock |-> 0, closed |-> FALSE, inflight |-> 0]
    /\ tlsIn = NoTLSRequest
    /\ tlsPc = "idle"
    /\ tlsLoc = NoTLSLoc
    /\ tlsResp = NoTLSResp
    /\ tasks = <<>>
    /\ events = <<>>

\* ---- handleTLSValidate ----

\* the validated bundle is kept as config.TLS
handleTLSValidate_Stores(I) ==
    /\ tlsIn.op = "validate"
    /\ tlsPc = "idle"
    /\ LET u == unmarshalTLS(tlsIn) IN
       IF u.err THEN
          /\ tlsResp' = TLSError("validate", tlsIn.id, "unmarshal")
          /\ UNCHANGED configTLS
       ELSE \E avail \in PortOutcomes(I) :
              IF ~avail THEN
                 /\ tlsResp' = TLSError("validate", tlsIn.id, "port")
                 /\ UNCHANGED configTLS
              ELSE
                 /\ tlsResp' = TLSAnswer("validate", tlsIn.id, validateCertificates(u.data))
                 /\ configTLS' = validateCertificates(u.data)
    /\ TLSConsumed
    /\ UNCHANGED <<httpsServer, tlsPc, tlsLoc, tasks, events>>
    /\ UNCHANGED <<filterVars, statsVars, probeVars, installVars>>

\* lines 1007-1030
handleTLSValidate(I) ==
    /\ tlsIn.op = "validate"
    /\ tlsPc = "idle"
    /\ LET u == unmarshalTLS(tlsIn) IN
       IF u.err THEN tlsResp' = TLSError("validate", tlsIn.id, "unmarshal")
       ELSE \E avail \in PortOutcomes(I) :
              IF ~avail THEN tlsResp' = TLSError("validate", tlsIn.id, "port")
              ELSE tlsResp' = TLSAnswer("validate", tlsIn.id, validateCertificates(u.data))
    /\ TLSConsumed
    /\ UNCHANGED <<configTLS, httpsServer, tlsPc, tlsLoc, tasks, events>>
    /\ UNCHANGED <<filterVars, statsVars, probeVars, installVars>>

\* ---- handleTLSConfigure ----

\* the comparison of the whole tlsConfig, report fields included
SettingsChanged_Whole(old, new) == old # new

\* !reflect.DeepEqual(config.TLS.tlsConfigSettings, data.tlsConfigSettings)
SettingsChanged(old, new) == tlsConfigSettings(old) # tlsConfigSettings(new)

\* an entry of the log: what happened, for which request, on the goroutine
\* of the handler or on a goroutine started by it
Event(what, req, by) == [what |-> what, req |-> req, by |-> by]

\* lines 1033-1059: decode, check the port, validate, compare with
\* config.TLS and replace it
TLSConfigureStart(I) ==
    /\ tlsIn.op = "configure"
    /\ tlsPc = "idle"
    /\ LET u == unmarshalTLS(tlsIn) IN
       IF u.err THEN
          /\ tlsResp' = TLSError("configure", tlsIn.id, "unmarshal")
          /\ UNCHANGED <<configTLS, tlsPc, tlsLoc>>
       ELSE \E avail \in PortOutcomes(I) :
              IF ~avail THEN
                 /\ tlsResp' = TLSError("configure", tlsIn.id, "port")
                 /\ UNCHANGED <<configTLS, tlsPc, tlsLoc>>
              ELSE
                 LET data == validateCertificates(u.data) IN
                 /\ tlsLoc' = [data |-> data,
                               restartHTTPS |-> SettingsChanged(configTLS, data),
                               req |-> tlsIn.id,
                               before |-> configTLS]
                 /\ configTLS' = data
                 /\ tlsPc' = "tls_write"
                 /\ UNCHANGED tlsResp
    /\ TLSConsumed
    /\ UNCHANGED <<httpsServer, tasks, events>>
    /\ UNCHANGED <<filterVars, statsVars, probeVars, installVars>>

\* lines 1060-1065: write the configuration and reload; on an error answer
\* it and return, otherwise write the bundle
TLSConfigureWrite(I) ==
    /\ tlsPc = "tls_write"
    /\ \E c \in I.cfg :
         IF c # "none" THEN
            /\ tlsResp' = TLSError("configure", tlsLoc.req, "config")
            /\ tlsPc' = "idle"
            /\ tlsLoc' = NoTLSLoc
            /\ UNCHANGED events
         ELSE
            /\ tlsResp' = [TLSAnswer("configure", tlsLoc.req, tlsLoc.data) EXCEPT
                              !.before = tlsLoc.before]
            /\ events' = Append(events, Event("respond", tlsLoc.req, "handler"))
            /\ tlsPc' = "tls_spawn"
            /\ UNCHANGED tlsLoc
    /\ UNCHANGED <<configTLS, httpsServer, tlsIn, tasks>>
    /\ UNCHANGED <<filterVars, statsVars, probeVars, installVars>>

\* lines 1068-1079: start the goroutine when a restart is needed; the
\* handler returns
TLSConfigureSpawn ==
    /\ tlsPc = "tls_spawn"
    /\ tasks' = IF tlsLoc.restartHTTPS
                THEN Append(tasks, [pc |-> "sleep", req |-> tlsLoc.req])
                ELSE tasks
    /\ tlsPc' = "idle"
    /\ tlsLoc' = NoTLSLoc
    /\ UNCHANGED <<configTLS, httpsServer, tlsIn, tlsResp, events>>
    /\ UNCHANGED <<filterVars, statsVars, probeVars, installVars>>

\* ---- the goroutine of lines 1069-1077 ----

\* the shutdown before the broadcast
RestartStepAfter_ShutdownFirst(p) ==
    CASE p = "sleep" -> "lock"
      [] p = "lock" -> "shutdown"
      [] p = "shutdown" -> "drain"
      [] p = "drain" -> "broadcast"
      [] p = "broadcast" -> "unlock"
      [] OTHER -> "done"

\* the statement after each statement of the goroutine
RestartStepAfter(p) ==
    CASE p = "sleep" -> "lock"
      [] p = "lock" -> "broadcast"
      [] p = "broadcast" -> "shutdown"
      [] p = "shutdown" -> "drain"
      [] p = "drain" -> "unlock"
      [] OTHER -> "done"

\* goroutine t goes on to its next statement, e is what it has just done
RestartGoes(t, e) ==
    /\ tasks' = [tasks EXCEPT ![t].pc = RestartStepAfter(@)]
    /\ events' = IF e = "" THEN events ELSE Append(events, Event(e, tasks[t].req, "task"))
    /\ UNCHANGED <<configTLS, tlsIn, tlsPc, tlsLoc, tlsResp>>
    /\ UNCHANGED <<filterVars, statsVars, probeVars, installVars>>

\* line 1070: time.Sleep(time.Second) has returned
RestartSleep(t) ==
    /\ tasks[t].pc = "sleep"
    /\ RestartGoes(t, "sleep")
    /\ UNCHANGED httpsServer

\* line 1071: httpsServer.cond.L.Lock()
RestartLock(t) ==
    /\ tasks[t].pc = "lock"
    /\ httpsServer.lock = 0
    /\ httpsServer' = [httpsServer EXCEPT !.lock = t]
    /\ RestartGoes(t, "lock")

\* line 1072: httpsServer.cond.Broadcast()
RestartBroadcast(t) ==
    /\ tasks[t].pc = "broadcast"
    /\ RestartGoes(t, "broadcast")
    /\ UNCHANGED httpsServer

\* lines 1073-1075: Shutdown of the server when there is one is called: the
\* listener is closed at once
RestartShutdown(t) ==
    /\ tasks[t].pc = "shutdown"
    /\ IF httpsServer.server
       THEN /\ httpsServer' = [httpsServer EXCEPT !.closed = TRUE]
            /\ RestartGoes(t, "shutdown")
       ELSE /\ UNCHANGED httpsServer
            /\ RestartGoes(t, "")

\* line 1074: Shutdown(context.TODO()) returns once no connection is being
\* served; the context never expires
RestartDrained(t) ==
    /\ tasks[t].pc = "drain"
    /\ httpsServer.server => httpsServer.inflight = 0
    /\ RestartGoes(t, "")
    /\ UNCHANGED httpsServer

\* a client opens a connection to the HTTPS server and sends a request
ConnOpen ==
    /\ httpsServer.server
    /\ ~httpsServer.closed
    /\ httpsServer.inflight < MaxConns
    /\ httpsServer' = [httpsServer EXCEPT !.inflight = @ + 1]
    /\ UNCHANGED <<configTLS, tlsIn, tlsPc, tlsLoc, tlsResp, tasks, events>>
    /\ UNCHANGED <<filterVars, statsVars, probeVars, installVars>>

\* the request of a connection has been served
ConnDone ==
    /\ httpsServer.inflight > 0
    /\ httpsServer' = [httpsServer EXCEPT !.inflight = @ - 1]
    /\ UNCHANGED <<configTLS, tlsIn, tlsPc, tlsLoc, tlsResp, tasks, events>>
    /\ UNCHANGED <<filterVars, statsVars, probeVars, installVars>>

\* line 1076: httpsServer.cond.L.Unlock()
RestartUnlock(t) ==
    /\ tasks[t].pc = "unlock"
    /\ httpsServer' = [httpsServer EXCEPT !.lock = 0]
    /\ RestartGoes(t, "")

\* ---- the counter store of the DNS server ----

\* a counter mapping (map[string]int) is a function from its keys to their
\* counts; the keys are numbered
NoMap == <<>>

\* the instants at which the queries of the model are counted
T0 == Day
QueryTimes == {T0, T0 + Second, T0 + Hour, T0 + 2 * Hour + Minute, T0 + 3 * Hour}

\* the store: the three mappings, the summed counters, the queries counted
\* at each instant.  dirty and counted are history: a query was counted
\* since the last reset request (or there was none), the queries counted
\* since the start
EmptyStats ==
    [Domains |-> NoMap, Blocked |-> NoMap, Clients |-> NoMap,
     dns_queries |-> 0, blocked_filtering |-> 0,
     at |-> [t \in QueryTimes |-> 0],
     dirty |-> TRUE, counted |-> 0]

Kinds == {"Domains", "Blocked", "Clients"}

\* m with the count of key k one higher
Incremented(m, k) ==
    [j \in DOMAIN m \cup {k} |-> IF j = k THEN (IF k \in DOMAIN m THEN m[k] + 1 ELSE 1) ELSE m[j]]

\* the DNS server counts a query of client c for domain d at instant t,
\* blocked or not
Counted(st, d, c, blocked, t) ==
    [st EXCEPT !.Domains = Incremented(@, d),
               !.Clients = Incremented(@, c),
               !.Blocked = IF blocked THEN Incremented(@, d) ELSE @,
               !.dns_queries = @ + 1,
               !.blocked_filtering = IF blocked THEN @ + 1 ELSE @,
               !.at = [@ EXCEPT ![t] = @ + 1],
               !.dirty = TRUE,
               !.counted = @ + 1]

\* dnsServer.GetStatsTop()
GetStatsTop(st) == [k \in Kinds |-> st[k]]

\* dnsServer.GetAggregatedStats()
GetAggregatedStats(st) ==
    [dns_queries |-> st.dns_queries, blocked_filtering |-> st.blocked_filtering]

\* dnsServer.PurgeStats(): every counter back to zero
PurgeStats(st) ==
    [st EXCEPT !.Domains = [k \in DOMAIN @ |-> 0],
               !.Clients = [k \in DOMAIN @ |-> 0],
               !.Blocked = [k \in DOMAIN @ |-> 0],
               !.dns_queries = 0,
               !.blocked_filtering = 0,
               !.at = [t \in QueryTimes |-> 0]]

MaxOf(S) == IF S = {} THEN 0 ELSE CHOOSE x \in S : \A y \in S : y <= x
MinOf(S) == IF S = {} THEN 0 ELSE CHOOSE x \in S : \A y \in S : x <= y

\* the sum of f over the set S of numbers
RECURSIVE SumOver(_, _)
SumOver(S, f) ==
    IF S = {} THEN 0
    ELSE IF MinOf(S) = MaxOf(S) THEN f[MinOf(S)]
    ELSE LET mid == (MinOf(S) + MaxOf(S)) \div 2 IN
         SumOver({x \in S : x <= mid}, f) + SumOver({x \in S : x > mid}, f)

\* the windows of a history: one when start and end are the same instant,
\* otherwise one for every unit that starts before the end
HistoryWindows_Inclusive(timeUnit, startTime, endTime) ==
    ((endTime - startTime) \div timeUnit) + 1

HistoryWindows(timeUnit, startTime, endTime) ==
    IF endTime = startTime THEN 1
    ELSE ((endTime - startTime) + timeUnit - 1) \div timeUnit

\* dnsServer.GetStatsHistory(timeUnit, startTime, endTime): an error when
\* the end is before the start, else the total of every window, in time
\* order
GetStatsHistory(st, timeUnit, startTime, endTime) ==
    IF endTime < startTime THEN [err |-> TRUE, data |-> <<>>]
    ELSE [err |-> FALSE,
          data |-> [i \in 1..HistoryWindows(timeUnit, startTime, endTime) |->
                       SumOver({t \in QueryTimes :
                                   /\ startTime + (i - 1) * timeUnit <= t
                                   /\ t < startTime + i * timeUnit}, st.at)]]

\* ---- the statistics handlers ----

\* a timestamp parameter of a request: a text in the RFC 3339 layout, the
\* digits of a Unix time, or no parameter at all
RFC3339(t) == [layout |-> "rfc3339", t |-> t]
UnixDigits(t) == [layout |-> "unix", t |-> t]
NoParam == [layout |-> "", t |-> 0]

\* time.Parse(time.RFC3339, text)
ParseRFC3339(text) ==
    IF text.layout = "rfc3339" THEN [err |-> FALSE, t |-> text.t]
    ELSE [err |-> TRUE, t |-> 0]

NoHistoryQuery == [time_unit |-> "", start_time |-> NoParam, end_time |-> NoParam]

NoStatsLoc == [s |-> [k \in Kinds |-> NoMap], json |-> [k \in Kinds |-> <<>>]]

\* the response to the last request.  top: the three views written by
\* handleStatsTop; src is history, the mappings they were made from.
\* summed: the counters written by handleStats.  data: the buckets written
\* by handleStatsHistory; query, queried and at are history: the parameters
\* of the request, whether the store was asked and the queries it had
\* counted.  clean is history: no query was counted between the last reset
\* request and the moment the store was read
NoStatsResp ==
    [op |-> "none", err |-> "none",
     top |-> [k \in Kinds |-> <<>>], src |-> [k \in Kinds |-> NoMap],
     summed |-> [dns_queries |-> 0, blocked_filtering |-> 0],
     status |-> "StatusOK",
     data |-> <<>>, query |-> NoHistoryQuery, queried |-> FALSE,
     at |-> [t \in QueryTimes |-> 0],
     clean |-> FALSE]

\* no request to the statistics, an empty store
InitStats ==
    /\ stats = EmptyStats
    /\ statsPc = "idle"
    /\ statsLoc = NoStatsLoc
    /\ statsResp = NoStatsResp

\* the DNS server counts a query
Traffic(I) ==
    /\ stats.counted < MaxTraffic
    /\ \E d \in I.domains, c \in I.clients, b \in I.blocked, t \in I.times :
         stats' = Counted(stats, d, c, b, t)
    /\ UNCHANGED <<statsPc, statsLoc, statsResp>>
    /\ UNCHANGED <<filterVars, tlsVars, probeVars, installVars>>

\* the keys of a mapping in increasing order
RECURSIVE KeysFrom(_)
KeysFrom(S) ==
    IF S = {} THEN <<>>
    ELSE IF MinOf(S) = MaxOf(S) THEN <<MinOf(S)>>
    ELSE LET mid == (MinOf(S) + MaxOf(S)) \div 2 IN
         KeysFrom({x \in S : x <= mid}) \o KeysFrom({x \in S : x > mid})

Rotate(q, n) == SubSeq(q, n + 1, Len(q)) \o SubSeq(q, 1, n)

\* for k, v := range m: the order changes from one range to the next; Go
\* starts a range at a random position of the table and wraps around
IterOrders(m) ==
    IF DOMAIN m = {} THEN {<<>>}
    ELSE {Rotate(KeysFrom(DOMAIN m), n) :
            n \in 0..MinOf({Cardinality(DOMAIN m) - 1, MaxOffset})}

\* the keys of order whose count is between lo and hi, highest count
\* first, keys of the same count in the order of order
RECURSIVE Descending(_, _, _, _)
Descending(order, m, lo, hi) ==
    IF lo = hi THEN SelectSeq(order, LAMBDA k : m[k] = lo)
    ELSE LET mid == (lo + hi) \div 2 IN
         Descending(order, m, mid + 1, hi) \o Descending(order, m, lo, mid)

\* the same, lowest count first
RECURSIVE Ascending(_, _, _, _)
Ascending(order, m, lo, hi) ==
    IF lo = hi THEN SelectSeq(order, LAMBDA k : m[k] = lo)
    ELSE LET mid == (lo + hi) \div 2 IN
         Ascending(order, m, lo, mid) \o Ascending(order, m, mid + 1, hi)

\* the comparison the other way round
sortByValue_Ascending(m, order) ==
    Ascending(order, m, MinOf({m[k] : k \in DOMAIN m}), MaxOf({m[k] : k \in DOMAIN m}))

\* sortByValue (lines 301-319): the keys, ranged over in the given order,
\* sorted with ss[l].v > ss[r].v
sortByValue(m, order) ==
    Descending(order, m, MinOf({m[k] : k \in DOMAIN m}), MaxOf({m[k] : k \in DOMAIN m}))

\* gen (lines 168-192): the keys sorted, cut to 50, each with top[key]
gen(top, order) ==
    LET sorted == sortByValue(top, order)
        cut == IF Len(sorted) > TopLimit THEN SubSeq(sorted, 1, TopLimit) ELSE sorted IN
    [i \in 1..Len(cut) |-> [key |-> cut[i], count |-> top[cut[i]]]]

\* line 162: s := dnsServer.GetStatsTop()
StatsTopStart ==
    /\ statsPc = "idle"
    /\ statsLoc' = [NoStatsLoc EXCEPT !.s = GetStatsTop(stats)]
    /\ statsPc' = "Domains"
    /\ statsResp' = [NoStatsResp EXCEPT !.op = "top_pending", !.clean = ~stats.dirty]
    /\ UNCHANGED stats
    /\ UNCHANGED <<filterVars, tlsVars, probeVars, installVars>>

\* each call of gen asks the store again
GenInput_Store(s, st, kind) == GetStatsTop(st)[kind]

\* lines 193-195: the mapping a call of gen is given is a field of s, of
\* what line 162 read; st is the store at the time of the call
GenInput(s, st, kind) == s[kind]

\* lines 193-195, one call of gen; after the last one the body is written
\* (lines 196-205)
StatsTopGen ==
    /\ statsPc \in Kinds
    /\ \E order \in IterOrders(GenInput(statsLoc.s, stats, statsPc)) :
         LET json == [statsLoc.json EXCEPT
                         ![statsPc] = gen(GenInput(statsLoc.s, stats, statsPc), order)] IN
         IF statsPc = "Clients" THEN
            /\ statsResp' = [statsResp EXCEPT !.op = "top", !.top = json, !.src = statsLoc.s]
            /\ statsPc' = "idle"
            /\ statsLoc' = NoStatsLoc
         ELSE
            /\ statsLoc' = [statsLoc EXCEPT !.json = json]
            /\ statsPc' = IF statsPc = "Domains" THEN "Blocked" ELSE "Clients"
            /\ UNCHANGED statsResp
    /\ UNCHANGED stats
    /\ UNCHANGED <<filterVars, tlsVars, probeVars, installVars>>

\* handleStats (lines 220-238)
handleStats ==
    /\ statsPc = "idle"
    /\ statsResp' = [NoStatsResp EXCEPT !.op = "stats",
                                        !.summed = GetAggregatedStats(stats),
                                        !.clean = ~stats.dirty]
    /\ UNCHANGED <<stats, statsPc, statsLoc>>
    /\ UNCHANGED <<filterVars, tlsVars, probeVars, installVars>>

\* the reset that answers without purging
ResetStore_NoPurge(st) == st

\* line 210: what handleStatsReset does to the store
ResetStore(st) == PurgeStats(st)

\* handleStatsReset (lines 209-217)
handleStatsReset ==
    /\ statsPc = "idle"
    /\ stats' = [ResetStore(stats) EXCEPT !.dirty = FALSE]
    /\ statsResp' = [NoStatsResp EXCEPT !.op = "reset", !.clean = TRUE]
    /\ UNCHANGED <<statsPc, statsLoc>>
    /\ UNCHANGED <<filterVars, tlsVars, probeVars, installVars>>

\* handleStatsReset on another worker while handleStatsTop is between two
\* of its steps; statsResp stays the response of handleStatsTop
ResetDuringTop ==
    /\ statsPc \in Kinds
    /\ stats' = [ResetStore(stats) EXCEPT !.dirty = FALSE]
    /\ UNCHANGED <<statsPc, statsLoc, statsResp>>
    /\ UNCHANGED <<filterVars, tlsVars, probeVars, installVars>>

\* an unknown unit is taken for seconds
TimeUnitOf_DefaultSeconds(timeUnitString) ==
    CASE timeUnitString = "minutes" -> Minute
      [] timeUnitString = "hours" -> Hour
      [] timeUnitString = "days" -> Day
      [] OTHER -> Second

\* lines 245-257: the window size of a time_unit parameter, 0 for the
\* default branch
TimeUnitOf(timeUnitString) ==
    CASE timeUnitString = "seconds" -> Second
      [] timeUnitString = "minutes" -> Minute
      [] timeUnitString = "hours" -> Hour
      [] timeUnitString = "days" -> Day
      [] OTHER -> 0

\* http.Error(w, ..., http.StatusBadRequest)
HistoryError(e, q, queried, st) ==
    [NoStatsResp EXCEPT !.op = "history", !.err = e, !.status = "StatusBadRequest",
                        !.query = q, !.queried = queried, !.at = st.at,
                        !.clean = ~st.dirty]

\* handleStatsHistory (lines 241-298)
handleStatsHistory(I) ==
    /\ statsPc = "idle"
    /\ \E q \in I.history :
         LET timeUnit == TimeUnitOf(q.time_unit)
             startTime == ParseRFC3339(q.start_time)
             endTime == ParseRFC3339(q.end_time)
             h == GetStatsHistory(stats, timeUnit, startTime.t, endTime.t) IN
         statsResp' =
            IF timeUnit = 0 THEN HistoryError("time_unit", q, FALSE, stats)
            ELSE IF startTime.err THEN HistoryError("start_time", q, FALSE, stats)
            ELSE IF endTime.err THEN HistoryError("end_time", q, FALSE, stats)
            ELSE IF h.err THEN HistoryError("history", q, TRUE, stats)
            ELSE [NoStatsResp EXCEPT !.op = "history", !.data = h.data,
                                     !.query = q, !.queried = TRUE, !.at = stats.at,
                                     !.clean = ~stats.dirty]
    /\ UNCHANGED <<stats, statsPc, statsLoc>>
    /\ UNCHANGED <<filterVars, tlsVars, probeVars, installVars>>

\* ---- the test of upstream DNS servers ----

\* the answer records a server may send: the A record of the test name with
\* the expected address, one with another address, a record of another type
GoodAddress == "8.8.8.8"
Records ==
    {[rrtype |-> "A", a |-> GoodAddress],
     [rrtype |-> "A", a |-> "10.0.0.1"],
     [rrtype |-> "CNAME", a |-> ""]}

\* what checkDNS meets at a server during a request: whether the address
\* gives an upstream, whether the exchange succeeds, the answer section of
\* the reply
Resolver(upstream, exchange, answer) ==
    [upstream |-> upstream, exchange |-> exchange, answer |-> answer]

Resolvers ==
    {Resolver(FALSE, FALSE, <<>>), Resolver(TRUE, FALSE, <<>>)}
    \cup {Resolver(TRUE, TRUE, answer) : answer \in SeqsUpTo(Records, MaxAnswers)}

\* the error of checkDNS: its text up to the name of the server, and the
\* address it ends with, if any
ProbeError(text, a) == [text |-> text, a |-> a]

Nil == ProbeError("", "")

\* the address of an A record is not looked at
WrongAddress_Never(rr) == FALSE

\* lines 430-432: the record is an A record with another address than
\* net.IPv4(8, 8, 8, 8)
WrongAddress(rr) == rr.rrtype = "A" /\ rr.a # GoodAddress

\* any number of answers is accepted and the first one is looked at
checkDNS_AnyAnswer(input, net) ==
    IF ~net.upstream THEN ProbeError("failed to choose upstream for", "")
    ELSE IF ~net.exchange THEN ProbeError("couldn't communicate with DNS server", "")
    ELSE IF Len(net.answer) = 0 THEN ProbeError("returned wrong answer", "")
    ELSE IF net.answer[1].rrtype = "A" /\ net.answer[1].a # GoodAddress
         THEN ProbeError("returned wrong answer:", net.answer[1].a)
    ELSE Nil

\* checkDNS (lines 410-438)
checkDNS(input, net) ==
    IF ~net.upstream THEN ProbeError("failed to choose upstream for", "")
    ELSE IF ~net.exchange THEN ProbeError("couldn't communicate with DNS server", "")
    ELSE IF Len(net.answer) # 1 THEN ProbeError("returned wrong answer", "")
    ELSE IF WrongAddress(net.answer[1])
         THEN ProbeError("returned wrong answer:", net.answer[1].a)
    ELSE Nil

\* strings.Fields(string(body)): the body is a sequence of host
\* specifications and stretches of white space
Fields(body) == SelectSeq(body, LAMBDA x : x # " ")

\* the response to the last test request: result is the map written; body
\* and checks are history, the body of the request and what each call of
\* checkDNS met and returned
NoProbeResp ==
    [op |-> "none", status |-> "StatusOK", result |-> <<>>, checks |-> <<>>,
     body |-> <<>>]

\* no request to the upstream test
InitProbe ==
    /\ probeResp = NoProbeResp

\* the loop over the hosts ends at the first host that fails
handleTestUpstreamDNS_StopAtError(I) ==
    /\ \E body \in I.bodies :
         LET hosts == Fields(body) IN
         IF Len(hosts) = 0 THEN
            probeResp' = [NoProbeResp EXCEPT !.op = "test", !.body = body,
                                            !.status = "StatusBadRequest"]
         ELSE
            \E nets \in [1..Len(hosts) -> I.resolvers] :
               LET errs == [i \in 1..Len(hosts) |-> checkDNS(hosts[i], nets[i])]
                   n == MinOf({Len(hosts)} \cup {i \in 1..Len(hosts) : errs[i] # Nil})
                   last(h) == MaxOf({i \in 1..n : hosts[i] = h}) IN
               probeResp' =
                  [NoProbeResp EXCEPT
                     !.op = "test",
                     !.body = body,
                     !.result = [h \in {hosts[i] : i \in 1..n} |->
                                   IF errs[last(h)] = Nil THEN ProbeError("OK", "")
                                   ELSE errs[last(h)]],
                     !.checks = [i \in 1..n |->
                                   [host |-> hosts[i], net |-> nets[i], err |-> errs[i]]]]
    /\ UNCHANGED <<filterVars, tlsVars, statsVars, installVars>>

\* handleTestUpstreamDNS (lines 364-408)
handleTestUpstreamDNS(I) ==
    /\ \E body \in I.bodies :
         LET hosts == Fields(body) IN
         IF Len(hosts) = 0 THEN
            probeResp' = [NoProbeResp EXCEPT !.op = "test", !.body = body,
                                            !.status = "StatusBadRequest"]
         ELSE
            \E nets \in [1..Len(hosts) -> I.resolvers] :
               LET errs == [i \in 1..Len(hosts) |-> checkDNS(hosts[i], nets[i])]
                   last(h) == MaxOf({i \in 1..Len(hosts) : hosts[i] = h}) IN
               probeResp' =
                  [NoProbeResp EXCEPT
                     !.op = "test",
                     !.body = body,
                     !.result = [h \in {hosts[i] : i \in 1..Len(hosts)} |->
                                   IF errs[last(h)] = Nil THEN ProbeError("OK", "")
                                   ELSE errs[last(h)]],
                     !.checks = [i \in 1..Len(hosts) |->
                                   [host |-> hosts[i], net |-> nets[i], err |-> errs[i]]]]
    /\ UNCHANGED <<filterVars, tlsVars, statsVars, installVars>>

\* ---- handleInstallConfigure ----

\* the body of a request (firstRunData): the addresses of the web interface
\* and of the DNS server, and the credentials
InstallSettings(webIP, webPort, dnsIP, dnsPort) ==
    [Web |-> [IP |-> webIP, Port |-> webPort], DNS |-> [IP |-> dnsIP, Port |-> dnsPort],
     Username |-> "admin", Password |-> "secret"]

\* the response to the last request; history: its number, the settings it
\* carried, restartHTTP as the handler computed it, the configuration
\* before it, and whether the handler called startDNSServer
NoInstallResp ==
    [req |-> 0, err |-> "none", restartHTTP |-> FALSE,
     newSettings |-> InstallSettings("", 0, "", 0),
     before |-> [firstRun |-> TRUE, BindHost |-> "", BindPort |-> 0,
                 DNSBindHost |-> "", DNSPort |-> 0, AuthName |-> "", AuthPass |-> ""],
     startDNS |-> FALSE]

\* the first run: the web interface on every address, port 3000
InitInstall ==
    /\ config = [firstRun |-> TRUE, BindHost |-> "0.0.0.0", BindPort |-> 3000,
                 DNSBindHost |-> "0.0.0.0", DNSPort |-> 53, AuthName |-> "", AuthPass |-> ""]
    /\ httpServer = [closed |-> FALSE, by |-> 0]
    /\ installResp = NoInstallResp
    /\ installTasks = <<>>

\* lines 953-957: no need to rebind when host and port are those in use
RestartHTTP(newSettings) ==
    ~(config.BindHost = newSettings.Web.IP /\ config.BindPort = newSettings.Web.Port)

\* lines 974-980
Installed(newSettings) ==
    [firstRun |-> FALSE,
     BindHost |-> newSettings.Web.IP, BindPort |-> newSettings.Web.Port,
     DNSBindHost |-> newSettings.DNS.IP, DNSPort |-> newSettings.DNS.Port,
     AuthName |-> newSettings.Username, AuthPass |-> newSettings.Password]

\* the answer of a request numbered n
InstallAnswer(n, e, newSettings) ==
    [req |-> n, err |-> e, restartHTTP |-> RestartHTTP(newSettings),
     newSettings |-> newSettings, before |-> config, startDNS |-> FALSE]

\* the configuration is assigned before the two addresses are checked
handleInstallConfigure_AssignFirst(I) ==
    /\ installResp.req < MaxInstalls
    /\ \E q \in I.requests, e \in I.env :
         LET n == installResp.req + 1
             newSettings == q.body
             restartHTTP == RestartHTTP(newSettings) IN
         IF ~q.parsed THEN
            /\ installResp' = [InstallAnswer(n, "decode", NoInstallResp.newSettings)
                                  EXCEPT !.restartHTTP = FALSE]
            /\ UNCHANGED <<config, installTasks>>
         ELSE IF restartHTTP /\ ~e.web THEN
            /\ installResp' = InstallAnswer(n, "web", newSettings)
            /\ config' = Installed(newSettings)
            /\ UNCHANGED installTasks
         ELSE IF ~e.dns THEN
            /\ installResp' = InstallAnswer(n, "dns", newSettings)
            /\ config' = Installed(newSettings)
            /\ UNCHANGED installTasks
         ELSE IF newSettings.DNS.Port # 0 /\ ~e.start THEN
            /\ installResp' = [InstallAnswer(n, "start", newSettings) EXCEPT !.startDNS = TRUE]
            /\ config' = Installed(newSettings)
            /\ UNCHANGED installTasks
         ELSE
            /\ installResp' = [InstallAnswer(n, IF e.cfg = "none" THEN "none" ELSE "config",
                                             newSettings)
                                  EXCEPT !.startDNS = newSettings.DNS.Port # 0]
            /\ config' = Installed(newSettings)
            /\ installTasks' = IF restartHTTP
                               THEN Append(installTasks, [pc |-> "shutdown", req |-> n])
                               ELSE installTasks
    /\ UNCHANGED httpServer
    /\ UNCHANGED <<filterVars, tlsVars, statsVars, probeVars>>

\* handleInstallConfigure (lines 945-998).  q is the request; e is what the
\* collaborators answer: whether the two addresses can be listened on,
\* whether the DNS server starts, what the configuration write returns
handleInstallConfigure(I) ==
    /\ installResp.req < MaxInstalls
    /\ \E q \in I.requests, e \in I.env :
         LET n == installResp.req + 1
             newSettings == q.body
             restartHTTP == RestartHTTP(newSettings) IN
         IF ~q.parsed THEN
            /\ installResp' = [InstallAnswer(n, "decode", NoInstallResp.newSettings)
                                  EXCEPT !.restartHTTP = FALSE]
            /\ UNCHANGED <<config, installTasks>>
         ELSE IF restartHTTP /\ ~e.web THEN
            /\ installResp' = InstallAnswer(n, "web", newSettings)
            /\ UNCHANGED <<config, installTasks>>
         ELSE IF ~e.dns THEN
            /\ installResp' = InstallAnswer(n, "dns", newSettings)
            /\ UNCHANGED <<config, installTasks>>
         ELSE IF newSettings.DNS.Port # 0 /\ ~e.start THEN
            /\ installResp' = [InstallAnswer(n, "start", newSettings) EXCEPT !.startDNS = TRUE]
            /\ config' = Installed(newSettings)
            /\ UNCHANGED installTasks
         ELSE
            /\ installResp' = [InstallAnswer(n, IF e.cfg = "none" THEN "none" ELSE "config",
                                             newSettings)
                                  EXCEPT !.startDNS = newSettings.DNS.Port # 0]
            /\ config' = Installed(newSettings)
            /\ installTasks' = IF restartHTTP
                               THEN Append(installTasks, [pc |-> "shutdown", req |-> n])
                               ELSE installTasks
    /\ UNCHANGED httpServer
    /\ UNCHANGED <<filterVars, tlsVars, statsVars, probeVars>>

\* the goroutine of lines 994-996: httpServer.Shutdown(context.TODO())
InstallShutdown(t) ==
    /\ installTasks[t].pc = "shutdown"
    /\ httpServer' = [closed |-> TRUE, by |-> installTasks[t].req]
    /\ installTasks' = [installTasks EXCEPT ![t].pc = "done"]
    /\ UNCHANGED <<config, installResp>>
    /\ UNCHANGED <<filterVars, tlsVars, statsVars, probeVars>>

\* ---- specifications ----

Init == InitFilters /\ InitTLS /\ InitStats /\ InitProbe /\ InitInstall

\* one worker, requests one after the other, at one instant
Next ==
    \E w \in SeqWorkers :
        \/ AddStart(w, SeqInputs)
        \/ AddFetch(w, SeqInputs)
        \/ AddAppend(w, SeqInputs)
        \/ RemoveStart(w, SeqInputs)
        \/ RemoveStep(w, SeqInputs)
        \/ RemoveFinish(w, SeqInputs)
        \/ EnableStart(w, SeqInputs)
        \/ EnableStep(w)
        \/ EnableFinish(w, SeqInputs)
        \/ DisableStart(w, SeqInputs)
        \/ DisableStep(w)
        \/ DisableFinish(w, SeqInputs)
        \/ handleFilteringStatus(w, SeqInputs)

Spec == Init /\ [][Next]_vars

\* one worker, the flags and the refresh passes as the time passes
NextRefresh ==
    \/ \E w \in SeqWorkers :
        \/ AddStart(w, RefreshInputs)
        \/ AddFetch(w, RefreshInputs)
        \/ AddAppend(w, RefreshInputs)
        \/ EnableStart(w, RefreshInputs)
        \/ EnableStep(w)
        \/ EnableFinish(w, RefreshInputs)
        \/ DisableStart(w, RefreshInputs)
        \/ DisableStep(w)
        \/ DisableFinish(w, RefreshInputs)
        \/ handleFilteringRefresh(w, RefreshInputs)
    \/ Tick

SpecRefresh == Init /\ [][NextRefresh]_vars

\* NumWorkers workers, every interleaving of the steps of their requests
NextConc ==
    \E w \in Workers :
        \/ AddStart(w, ConcInputs)
        \/ AddFetch(w, ConcInputs)
        \/ AddAppend(w, ConcInputs)
        \/ RemoveStart(w, ConcInputs)
        \/ RemoveStep(w, ConcInputs)
        \/ RemoveFinish(w, ConcInputs)
        \/ EnableStart(w, ConcInputs)
        \/ EnableStep(w)
        \/ EnableFinish(w, ConcInputs)
        \/ DisableStart(w, ConcInputs)
        \/ DisableStep(w)
        \/ DisableFinish(w, ConcInputs)
        \/ handleFilteringRefresh(w, ConcInputs)
        \/ handleFilteringStatus(w, ConcInputs)

SpecConc == Init /\ [][NextConc]_vars

\* NumWorkers workers, every interleaving of the steps of Add requests
NextAdds ==
    \E w \in Workers :
        \/ AddStart(w, ConcInputs)
        \/ AddFetch(w, ConcInputs)
        \/ AddAppend(w, ConcInputs)

SpecAdds == Init /\ [][NextAdds]_vars

\* one validate request, of any chain and key text
InitValidate ==
    /\ InitFilters /\ InitStats /\ InitProbe /\ InitInstall
    /\ configTLS = TLSConfig(FALSE, "", 443, <<>>, <<>>)
    /\ httpsServer = [server |-> FALSE, lock |-> 0, closed |-> FALSE, inflight |-> 0]
    /\ tlsIn \in {[op |-> q.op, id |-> 1, parsed |-> q.parsed, body |-> q.body] :
                     q \in ValidateRequests(MaxBlocks)}
    /\ tlsPc = "idle"
    /\ tlsLoc = NoTLSLoc
    /\ tlsResp = NoTLSResp
    /\ tasks = <<>>
    /\ events = <<>>

NextValidate == handleTLSValidate(TLSInputs)

SpecValidate == InitValidate /\ [][NextValidate]_vars

\* the bytes of a private-key block: what each of the three parsers makes
\* of them is independent of the others, the inner key of PKCS#8 is of one
\* of three algorithms
KeyDERs ==
    [kind : {"pkcs1", "pkcs8", "sec1", "junk"}, also : SUBSET {"pkcs8", "sec1"},
     alg : {"RSA", "ECDSA", "Ed25519"}, pub : {"k1", "k2"}, id : {""}]

\* SpecKeys: a key text of one private-key block of any bytes, alone or
\* with a chain
KeyRequests ==
    {TLSRequest("validate", TRUE,
                TLSConfig(TRUE, "", 443, Base64Encode(chain),
                          Base64Encode(<<[Type |-> type, der |-> der]>>))) :
        chain \in {<<>>, <<CertBlock(SelfCert)>>, <<CertBlock(LeafCert)>>},
        type \in {"PRIVATE KEY", "RSA PRIVATE KEY"},
        der \in KeyDERs}

\* one validate request with a key text
InitKeys ==
    /\ InitFilters /\ InitStats /\ InitProbe /\ InitInstall
    /\ configTLS = TLSConfig(FALSE, "", 443, <<>>, <<>>)
    /\ httpsServer = [server |-> FALSE, lock |-> 0, closed |-> FALSE, inflight |-> 0]
    /\ tlsIn \in {[op |-> q.op, id |-> 1, parsed |-> q.parsed, body |-> q.body] :
                     q \in KeyRequests}
    /\ tlsPc = "idle"
    /\ tlsLoc = NoTLSLoc
    /\ tlsResp = NoTLSResp
    /\ tasks = <<>>
    /\ events = <<>>

NextKeys == handleTLSValidate(TLSInputs)

SpecKeys == InitKeys /\ [][NextKeys]_vars

\* the configuration file has the default settings or settings saved by an
\* earlier run (the report fields are not saved), and the HTTPS server is
\* running or not
InitConfigure ==
    /\ InitFilters /\ InitStats /\ InitProbe /\ InitInstall
    /\ configTLS \in {TLSConfig(FALSE, "", 443, <<>>, <<>>),
                      TLSConfig(TRUE, "", 443, <<CertBlock(SelfCert)>>, <<RSAKey1>>)}
    /\ httpsServer \in {[server |-> b, lock |-> 0, closed |-> FALSE, inflight |-> 0] : b \in BOOLEAN}
    /\ tlsIn = NoTLSRequest
    /\ tlsPc = "idle"
    /\ tlsLoc = NoTLSLoc
    /\ tlsResp = NoTLSResp
    /\ tasks = <<>>
    /\ events = <<>>

\* TLS requests one after the other, and the goroutines they start
NextTLS ==
    \/ SendTLS(TLSRequests)
    \/ handleTLSValidate(TLSInputs)
    \/ TLSConfigureStart(TLSInputs)
    \/ TLSConfigureWrite(TLSInputs)
    \/ TLSConfigureSpawn
    \/ \E t \in 1..MaxTLSRequests :
         /\ t <= Len(tasks)
         /\ \/ RestartSleep(t)
            \/ RestartLock(t)
            \/ RestartBroadcast(t)
            \/ RestartShutdown(t)
            \/ RestartDrained(t)
            \/ RestartUnlock(t)

SpecTLS == InitConfigure /\ [][NextTLS]_vars

\* configure requests, the goroutines they start, and clients of the HTTPS
\* server; every goroutine and the handler go on as long as they can, a
\* client may leave its request unfinished
RestartRequests ==
    {TLSRequest("configure", TRUE,
                TLSConfig(TRUE, "", port, Base64Encode(<<CertBlock(SelfCert)>>),
                          Base64Encode(<<RSAKey1>>))) : port \in {443, 8443}}

RestartInputs == [port |-> {TRUE}, cfg |-> {"none", "config"}]

RestartSend == SendTLS(RestartRequests)
RestartConfigureStart == TLSConfigureStart(RestartInputs)
RestartConfigureWrite == TLSConfigureWrite(RestartInputs)

NextRestart ==
    \/ RestartSend
    \/ RestartConfigureStart
    \/ RestartConfigureWrite
    \/ TLSConfigureSpawn
    \/ ConnOpen
    \/ ConnDone
    \/ \E t \in 1..MaxTLSRequests :
         /\ t <= Len(tasks)
         /\ \/ RestartSleep(t)
            \/ RestartLock(t)
            \/ RestartBroadcast(t)
            \/ RestartShutdown(t)
            \/ RestartDrained(t)
            \/ RestartUnlock(t)

\* the steps of goroutine t
RestartTask(t) ==
    /\ t <= Len(tasks)
    /\ \/ RestartSleep(t)
       \/ RestartLock(t)
       \/ RestartBroadcast(t)
       \/ RestartShutdown(t)
       \/ RestartDrained(t)
       \/ RestartUnlock(t)

\* a step of one of the goroutines
RestartProgress == \E t \in 1..MaxTLSRequests : RestartTask(t)

\* the scheduler runs a goroutine that can run
RestartFairness == WF_vars(RestartProgress)

SpecRestart == InitConfigure /\ [][NextRestart]_vars /\ RestartFairness

\* ---- properties ----

NoDuplicateURL(fs) == \A i, j \in 1..Len(fs) : i # j => fs[i].URL # fs[j].URL

\* the filters of fs whose URL is not u, in their order
Without(fs, u) == SelectSeq(fs, LAMBDA f : f.URL # u)

\* under Spec and SpecRefresh: this step ends a request of the one worker
Ends == pc'[1] = "idle" /\ now' = now

\* the collection when the request that this step ends was picked up
Before == IF pc[1] = "idle" THEN Filters ELSE loc[1].before

\* the URLs that Add has put in without error and Remove has not taken out
\* without error, after the request this step ends
ExpectedURLs ==
    IF resp'.op = "add" /\ resp'.err = "none" THEN URLsOf(Before) \cup {resp'.url}
    ELSE IF resp'.op = "remove" /\ resp'.err = "none" THEN URLsOf(Before) \ {resp'.url}
    ELSE URLsOf(Before)

\* C1: after every Add or Remove of a sequence of requests, the URLs of the
\* collection are those of the collection before, plus the URL of an Add
\* answered without error, minus the URL of a Remove answered without error
\* (so that, from the empty collection, they are exactly the URLs added and
\* not removed since), and no two filters have the same URL.
C1_AddRemoveSet ==
    [][(Ends /\ resp'.op \in {"add", "remove"}) =>
          /\ URLsOf(Filters') = ExpectedURLs
          /\ NoDuplicateURL(Filters')]_vars

\* C2: whatever the interleaving of the Add requests of several workers, no
\* two filters of the collection have the same URL.
C2_UniqueUnderConcurrency == NoDuplicateURL(Filters)

\* worker w is between the first read and the last write of the collection
\* by a request that changes it
InSection(w) == pc[w] \in {"add_fetch", "add_append", "rm_loop", "en_loop", "dis_loop"}

\* C3: at most one request that changes the collection is between its first
\* read and its last write of it, and no status request has read the
\* collection in the middle of the pass of another request.
C3_ExclusiveSection ==
    /\ Cardinality({w \in Workers : InSection(w)}) <= 1
    /\ ~(resp.op = "status" /\ resp.torn)

\* C4: an Add that answers with an error leaves the collection as it was
\* when the request was picked up.
C4_FailedAddKeeps ==
    [][(Ends /\ resp'.op = "add" /\ resp'.err # "none") => Filters' = Before]_vars

\* C5: an Add whose URL is the URL of a filter of the collection is answered
\* with the duplicate error, without a success line, and leaves the
\* collection (length, order, every field of every filter) as it was; the
\* same request on the unchanged collection is answered the same.
C5_DuplicateRejected ==
    [][(Ends /\ resp'.op = "add" /\ resp'.url \in URLsOf(Before)) =>
          /\ resp'.err = "duplicate"
          /\ ~resp'.ok
          /\ Filters' = Before
          /\ nextFilterID' = nextFilterID]_vars

\* an Add has just been rejected as a duplicate of one of two filters
C5_Witness ==
    /\ AllIdle
    /\ resp.op = "add" /\ resp.err = "duplicate"
    /\ flen = 2
    /\ resp.url \in URLsOf(Filters)

\* C6: a Remove that stops on a file it cannot delete, with no other request
\* in flight during it, leaves the collection as it was when the request
\* was picked up.
C6_AbortedRemoveKeeps ==
    [][\A w \in Workers :
          (/\ pc[w] = "rm_loop" /\ pc'[w] = "idle"
           /\ resp'.op = "remove" /\ resp'.err = "rmfile"
           /\ loc[w].solo)
          => Filters' = loc[w].before]_vars

\* C7: a Remove with a well-formed URL that no filter has is answered with
\* an error and leaves the collection as it was; a Remove answered without
\* error leaves the filters of the other URLs, in their order.
C7_RemoveUnknownRejected ==
    [][(Ends /\ resp'.op = "remove" /\ IsRequestURL(resp'.url)) =>
          /\ resp'.url \notin URLsOf(Before) => (resp'.err # "none" /\ Filters' = Before)
          /\ resp'.err = "none" => Filters' = Without(Before, resp'.url)]_vars

\* C8: Enable and Disable with a URL that no filter has are answered with
\* an error and leave the collection as it was; otherwise they leave the
\* length, and the ID and URL of every filter at its position, set the flag
\* of every filter with the URL and leave the flag of every other filter.
C8_FlagFrame ==
    [][(Ends /\ resp'.op \in {"enable", "disable"}) =>
          IF resp'.url \notin URLsOf(Before)
          THEN resp'.err # "none" /\ ~resp'.ok /\ Filters' = Before
          ELSE /\ Len(Filters') = Len(Before)
               /\ \A i \in 1..Len(Before) :
                    /\ Filters'[i].ID = Before[i].ID
                    /\ Filters'[i].URL = Before[i].URL
                    /\ Filters'[i].Enabled =
                          IF Before[i].URL = resp'.url
                          THEN resp'.op = "enable"
                          ELSE Before[i].Enabled]_vars

\* an Enable has set the flag of one of two filters, its refresh pass has
\* updated a list, and the other filter is still disabled
C8_Witness ==
    /\ AllIdle
    /\ resp.op = "enable" /\ resp.err = "none"
    /\ resp.updated # {}
    /\ flen = 2
    /\ \E i, j \in 1..flen :
         /\ Filters[i].URL = resp.url /\ Filters[i].Enabled
         /\ Filters[j].URL # resp.url /\ ~Filters[j].Enabled

\* this step is a refresh request
RefreshEnds == Ends /\ pc[1] = "idle" /\ resp'.op = "refresh"

\* the list is fresh at the moment of the pass
Fresh30(f) == now - f.LastUpdated <= updatePeriod

\* C9: a refresh fetches no disabled list, forced or not, fetches no enabled
\* list that is fresh unless forced, leaves the lists it does not fetch as
\* they were, and answers the number of lists it updated: each of them was
\* fetched, has its file and the time of the pass, and no other list has a
\* new rule count.
C9_RefreshGate ==
    [][RefreshEnds =>
          /\ flen' = flen
          /\ \A i \in 1..flen :
               (~Filters[i].Enabled \/ (resp'.q = "" /\ Fresh30(Filters[i])))
                  => (i \notin resp'.tried /\ Filters'[i] = Filters[i])
          /\ resp'.updated \subseteq resp'.tried
          /\ resp'.n = Cardinality(resp'.updated)
          /\ \A i \in 1..flen :
               IF i \in resp'.updated
               THEN Filters'[i].LastUpdated = now /\ Filters'[i].ID \in files'
               ELSE Filters'[i].RulesCount = Filters[i].RulesCount]_vars

\* a pass that was not forced has updated the one list it fetched and has
\* skipped an enabled list that was fresh
C9_Witness ==
    /\ AllIdle
    /\ resp.op = "refresh" /\ resp.q = ""
    /\ flen = 2
    /\ resp.n = 1 /\ Cardinality(resp.tried) = 1
    /\ \E i \in 1..flen : i \notin resp.tried /\ Filters[i].Enabled

\* C10: a refresh fetches every enabled list that is due, whatever fetch
\* fails; a list whose fetch fails stays as it was and is not counted; the
\* lists updated after it are updated all the same.
C10_FailureDoesNotAbort ==
    [][RefreshEnds =>
          /\ resp'.tried = {i \in 1..flen :
                              /\ Filters[i].Enabled
                              /\ (resp'.q # "" \/ ~Fresh30(Filters[i]))}
          /\ resp'.failed \subseteq resp'.tried
          /\ \A i \in resp'.failed : Filters'[i] = Filters[i] /\ i \notin resp'.updated
          /\ \A i \in resp'.updated :
               Filters'[i].LastUpdated = now /\ Filters'[i].ID \in files'
          /\ resp'.n <= Cardinality(resp'.tried \ resp'.failed)]_vars

\* a pass in which the fetch of a list failed and a later list was updated
C10_Witness ==
    /\ AllIdle
    /\ resp.op = "refresh"
    /\ \E i \in resp.failed, j \in resp.updated : i < j

\* ---- the statistics over a store that has counted queries ----

Shapes == {"distinct", "equal", "pairs"}

\* a mapping of n keys: all counts different, all counts equal, or equal
\* two by two
ShapedMap(shape, n) ==
    [k \in 1..n |-> CASE shape = "distinct" -> k
                      [] shape = "equal" -> 1
                      [] OTHER -> (k + 1) \div 2]

Sizes == {0, TopLimit, MaxKeys - 1, MaxKeys}

\* a store after a day of queries in which the mapping of one kind has the
\* given shape: blocked domains are queried domains, and every query has a
\* domain and a client
StoreWith(kind, shape, n) ==
    LET m == ShapedMap(shape, n)
        total == SumOver(DOMAIN m, m)
        one == IF n = 0 THEN NoMap ELSE [k \in {1} |-> total]
        Domains == CASE kind = "Domains" -> m
                     [] kind = "Blocked" -> [k \in 1..n |-> m[k] + k]
                     [] OTHER -> one
        Blocked == IF kind = "Blocked" THEN m ELSE NoMap
        Clients == IF kind = "Clients" THEN m
                   ELSE IF DOMAIN Domains = {} THEN NoMap
                   ELSE [k \in {1} |-> SumOver(DOMAIN Domains, Domains)] IN
    [EmptyStats EXCEPT !.Domains = Domains, !.Blocked = Blocked, !.Clients = Clients,
                       !.dns_queries = SumOver(DOMAIN Domains, Domains),
                       !.blocked_filtering = SumOver(DOMAIN Blocked, Blocked),
                       !.at = [@ EXCEPT ![T0] = SumOver(DOMAIN Domains, Domains)]]

StatsInputs == [domains |-> {1, 2}, clients |-> {1}, blocked |-> BOOLEAN, times |-> {T0}]

InitStatsTop ==
    /\ InitFilters /\ InitTLS /\ InitProbe /\ InitInstall
    /\ stats \in {StoreWith(kind, shape, n) : kind \in Kinds, shape \in Shapes, n \in Sizes}
    /\ statsPc = "idle"
    /\ statsLoc = NoStatsLoc
    /\ statsResp = NoStatsResp

StatsTraffic == Traffic(StatsInputs)

NextStats ==
    \/ StatsTraffic
    \/ StatsTopStart
    \/ StatsTopGen
    \/ handleStats
    \/ handleStatsReset

SpecStats == InitStatsTop /\ [][NextStats]_vars

\* the same with reset requests served while handleStatsTop is at work
NextPurgeRace ==
    \/ NextStats
    \/ ResetDuringTop

SpecPurgeRace == InitStatsTop /\ [][NextPurgeRace]_vars


\* ---- the history of a store ----

UnitNames == {"seconds", "minutes", "hours", "days"}

\* the distances from start to end of the requests: up to MaxWindows whole
\* units, a second more, and ends before the start
Spans(unit) ==
    {k * unit + e : k \in 0..MaxWindows, e \in {0, Second}} \cup {0 - Second, 0 - unit}

HistoryRequests ==
    UNION {
        UNION {{[time_unit |-> u, start_time |-> RFC3339(T0), end_time |-> RFC3339(T0 + d)] :
                   d \in Spans(TimeUnitOf(u))} : u \in UnitNames},
        {[time_unit |-> u, start_time |-> x[1], end_time |-> x[2]] :
            u \in UnitNames,
            x \in {<<UnixDigits(T0), RFC3339(T0 + Hour)>>,
                   <<RFC3339(T0), NoParam>>,
                   <<NoParam, UnixDigits(T0)>>}},
        {[time_unit |-> u, start_time |-> x, end_time |-> RFC3339(T0 + Hour)] :
            u \in {"weeks", "hour", ""}, x \in {RFC3339(T0), NoParam}}}

HistoryInputs ==
    [domains |-> {1}, clients |-> {1}, blocked |-> {FALSE}, times |-> QueryTimes,
     history |-> HistoryRequests]

\* the store after one query at each of the instants of S
RECURSIVE CountedAt(_)
CountedAt(S) ==
    IF S = {} THEN EmptyStats
    ELSE Counted(CountedAt(S \ {MaxOf(S)}), 1, 1, FALSE, MaxOf(S))

InitHistory ==
    /\ InitFilters /\ InitTLS /\ InitProbe /\ InitInstall
    /\ stats \in {CountedAt(S) : S \in {{}, {T0, T0 + Hour}, QueryTimes}}
    /\ statsPc = "idle"
    /\ statsLoc = NoStatsLoc
    /\ statsResp = NoStatsResp

HistoryTraffic == Traffic(HistoryInputs)

StatsHistory == handleStatsHistory(HistoryInputs)

NextHistory ==
    \/ HistoryTraffic
    \/ StatsHistory
    \/ handleStatsReset

SpecHistory == InitHistory /\ [][NextHistory]_vars


\* ---- the upstream test ----

ProbeInputs ==
    [bodies |-> SeqsUpTo({" ", "h1", "h2"}, MaxHosts), resolvers |-> Resolvers]

InitProbes == InitFilters /\ InitTLS /\ InitStats /\ InitProbe /\ InitInstall

\* the one test request of a run
TestUpstreamDNS ==
    /\ probeResp.op = "none"
    /\ handleTestUpstreamDNS(ProbeInputs)

NextProbe == TestUpstreamDNS

SpecProbe == InitProbes /\ [][NextProbe]_vars


\* ---- install-configure ----

InstallRequests ==
    {[parsed |-> TRUE, body |-> InstallSettings(ip, port, "0.0.0.0", dnsPort)] :
        ip \in {"0.0.0.0", "127.0.0.1"}, port \in {3000, 80}, dnsPort \in {0, 53}}
    \cup {[parsed |-> FALSE, body |-> NoInstallResp.newSettings]}

InstallInputs ==
    [requests |-> InstallRequests,
     env |-> [web : BOOLEAN, dns : BOOLEAN, start : BOOLEAN, cfg : AllConfigOutcomes]]

InstallConfigure == handleInstallConfigure(InstallInputs)

NextInstall ==
    \/ InstallConfigure
    \/ \E t \in 1..MaxInstalls : t <= Len(installTasks) /\ InstallShutdown(t)

SpecInstall == Init /\ [][NextInstall]_vars


\* ---- properties of the TLS handlers ----

IsPrefix(a, b) == Len(a) <= Len(b) /\ \A i \in 1..Len(a) : a[i] = b[i]

\* what happened for request r, in the order of the log
WhatsOf(r) ==
    LET es == SelectSeq(events, LAMBDA e : e.req = r) IN [i \in 1..Len(es) |-> es[i].what]

RestartOrder == <<"respond", "sleep", "lock", "broadcast", "shutdown">>

\* C11: for every configure request, what happens is, in this order: the
\* success response is written, the grace period is over, the lock of the
\* condition variable is taken, the condition variable is broadcast, the
\* shutdown of the server is called.  The response is written by the
\* handler and everything after it by the goroutine, which exists only once
\* the response is written; a goroutine that is through has done all of it
\* (the shutdown when there is a server).
C11_RestartOrder ==
    /\ \A r \in 1..tlsIn.id : IsPrefix(WhatsOf(r), RestartOrder)
    /\ \A i \in 1..Len(events) :
         IF events[i].what = "respond" THEN events[i].by = "handler" ELSE events[i].by = "task"
    /\ \A t \in 1..Len(tasks) :
         /\ WhatsOf(tasks[t].req) # <<>>
         /\ tasks[t].pc = "done" =>
               WhatsOf(tasks[t].req) =
                  IF httpsServer.server THEN RestartOrder ELSE SubSeq(RestartOrder, 1, 4)

\* the goroutine of a request has shut the server down while the goroutine
\* of another request waits for the lock
C11_Witness ==
    \E t, u \in 1..Len(tasks) :
        /\ WhatsOf(tasks[t].req) = RestartOrder
        /\ tasks[t].pc = "unlock"
        /\ tasks[u].pc = "lock"

\* the settings that the listener is set up from
ListenerFields == {"CertificateChain", "PrivateKey", "Enabled", "PortHTTPS", "ServerName"}
ListenerSettingsDiffer(old, new) == \E f \in ListenerFields : old[f] # new[f]

\* C12: a configure request decides to restart exactly when its
\* certificate, key, enable flag, port or server name differs from that of
\* config.TLS; a goroutine that restarts the listener is started only by a
\* request answered with success that differs so, and every such request
\* starts one: a request that differs in the report fields only, or in
\* nothing, starts none.
C12_RestartIffChanged ==
    [][/\ (tlsPc = "idle" /\ tlsPc' = "tls_write") =>
            (tlsLoc'.restartHTTPS <=> ListenerSettingsDiffer(configTLS, tlsLoc'.data))
       /\ Len(tasks') # Len(tasks) =>
            /\ tasks' = Append(tasks, [pc |-> "sleep", req |-> tlsResp.req])
            /\ tlsResp.op = "configure" /\ tlsResp.err = "none"
            /\ ListenerSettingsDiffer(tlsResp.before, tlsResp.data)
       /\ (/\ tlsPc = "tls_spawn" /\ tlsPc' = "idle"
           /\ ListenerSettingsDiffer(tlsResp.before, tlsResp.data))
          => Len(tasks') = Len(tasks) + 1]_vars

\* a configure request with the settings of config.TLS has been answered
\* with report fields that differ from those of config.TLS, and no
\* goroutine was started
C12_Witness ==
    /\ tlsPc = "idle"
    /\ tlsResp.op = "configure" /\ tlsResp.err = "none"
    /\ ~ListenerSettingsDiffer(tlsResp.before, tlsResp.data)
    /\ tlsResp.before # tlsResp.data
    /\ tlsResp.data.usable
    /\ \A t \in 1..Len(tasks) : tasks[t].req # tlsResp.req

\* the certificate blocks of a text
CertBlocksOf(text) == SelectSeq(text, LAMBDA b : b.Type = "CERTIFICATE")

\* the text has a certificate block and all its certificate blocks parse
ChainValid(text) ==
    /\ CertBlocksOf(text) # <<>>
    /\ \A i \in 1..Len(CertBlocksOf(text)) : CertBlocksOf(text)[i].der.kind = "cert"

\* the first certificate of a valid chain
LeafOf(text) == CHOOSE c \in Certs : c.id = CertBlocksOf(text)[1].der.id

\* the leaf of a valid chain is not trusted for the server name
Untrusted(text, name) ==
    \/ name # "" /\ name \notin LeafOf(text).DNSNames
    \/ /\ LeafOf(text).Issuer # "CN=root"
       /\ ~\E i \in 2..Len(CertBlocksOf(text)) :
              CertBlocksOf(text)[i].der.id = "inter" /\ LeafOf(text).Issuer = "CN=inter"

\* the blocks of a text that are taken for a private key
KeyBlocksOf(text) == SelectSeq(text, LAMBDA b : IsPrivateKeyType(b.Type))

\* the text has a private-key block and the first one parses as an RSA or
\* ECDSA key
KeyValid(text) ==
    /\ KeyBlocksOf(text) # <<>>
    /\ LET der == KeyBlocksOf(text)[1].der IN
         \/ der.kind \in {"pkcs1", "sec1"}
         \/ der.kind = "pkcs8" /\ der.alg \in {"RSA", "ECDSA"}

\* the key of a valid key text is the key of the leaf of a valid chain
Matching(chain, key) ==
    /\ KeyBlocksOf(key)[1].der.pub = LeafOf(chain).pub
    /\ KeyBlocksOf(key)[1].der.alg = LeafOf(chain).alg

\* a validate request has been answered with a bundle
Validated == tlsResp.op = "validate" /\ tlsResp.err = "none"

\* C13: in the bundle of every validation, usable implies ValidCert and
\* ValidKey and a valid chain and key that match; usable does not need
\* ValidChain: a valid chain whose leaf is not trusted, with its key, gives
\* usable, not ValidChain, and a warning.
C13_UsableImplies ==
    Validated =>
        LET d == tlsResp.data IN
        /\ d.usable =>
              /\ d.ValidCert /\ d.ValidKey
              /\ ChainValid(d.CertificateChain) /\ KeyValid(d.PrivateKey)
              /\ Matching(d.CertificateChain, d.PrivateKey)
        /\ (/\ ChainValid(d.CertificateChain) /\ KeyValid(d.PrivateKey)
            /\ Matching(d.CertificateChain, d.PrivateKey)
            /\ Untrusted(d.CertificateChain, d.ServerName))
           => (d.usable /\ ~d.ValidChain /\ d.WarningValidation # "")

\* the self-signed certificate with its key: usable, chain not valid, warned
C13_Witness ==
    /\ Validated
    /\ CertBlocksOf(tlsResp.data.CertificateChain) = <<CertBlock(SelfCert)>>
    /\ KeyBlocksOf(tlsResp.data.PrivateKey) = <<RSAKey1>>
    /\ tlsResp.data.usable
    /\ ~tlsResp.data.ValidChain
    /\ tlsResp.data.WarningValidation = "Your certificate does not verify"

\* C14: every validation returns a bundle; usable is set for every valid
\* chain and valid key that match; usable is not set and the warning is not
\* empty when the chain text is there and not valid (a certificate block
\* that does not parse, no certificate block), when the key text is there
\* and not valid (no private-key block, a key that does not parse), and
\* when chain and key are valid and do not match.
C14_UsableOrWarned ==
    Validated =>
        LET d == tlsResp.data
            badChain == d.CertificateChain # <<>> /\ ~ChainValid(d.CertificateChain)
            badKey == d.PrivateKey # <<>> /\ ~KeyValid(d.PrivateKey)
            bothValid == ChainValid(d.CertificateChain) /\ KeyValid(d.PrivateKey) IN
        /\ (bothValid /\ Matching(d.CertificateChain, d.PrivateKey)) => d.usable
        /\ (badChain \/ badKey \/ (bothValid /\ ~Matching(d.CertificateChain, d.PrivateKey)))
              => (~d.usable /\ d.WarningValidation # "")

\* a trusted chain with a key text that has no private-key block
C14_Witness ==
    /\ Validated
    /\ tlsResp.data.ValidChain
    /\ tlsResp.data.PrivateKey # <<>>
    /\ KeyBlocksOf(tlsResp.data.PrivateKey) = <<>>
    /\ ~tlsResp.data.usable
    /\ tlsResp.data.WarningValidation = "No valid keys were found"

\* the report fields of the bundle are those of certificate c
MetadataOf(d, c) ==
    /\ d.Subject = c.Subject
    /\ d.Issuer = c.Issuer
    /\ d.NotBefore = c.NotBefore
    /\ d.NotAfter = c.NotAfter
    /\ d.DNSNames = c.DNSNames

\* the certificate blocks of a text that parse
ParsingCertBlocksOf(text) == SelectSeq(CertBlocksOf(text), LAMBDA b : b.der.kind = "cert")

\* C15 as stated: for every chain text with at least one certificate block
\* that parses, the bundle has ValidCert and the subject, issuer, dates and
\* names of the first certificate that parses, whatever else is in the text.
C15_AnyValidBlock ==
    Validated =>
        LET d == tlsResp.data IN
        ParsingCertBlocksOf(d.CertificateChain) # <<>> =>
            /\ d.ValidCert
            /\ MetadataOf(d, CHOOSE c \in Certs :
                                c.id = ParsingCertBlocksOf(d.CertificateChain)[1].der.id)

\* C15 amended: for every chain text with at least one certificate block and
\* whose certificate blocks all parse, the bundle has ValidCert and the
\* subject, issuer, dates and names of the first certificate, whatever the
\* trust of the chain, the blocks of other types in the text and the
\* outcome of the checks of the key.
C15_AllBlocksValid ==
    Validated =>
        LET d == tlsResp.data IN
        ChainValid(d.CertificateChain) =>
            /\ d.ValidCert
            /\ MetadataOf(d, LeafOf(d.CertificateChain))

\* an untrusted leaf next to a block of another type, and a key that does
\* not parse
C15_Witness ==
    /\ Validated
    /\ tlsResp.data.CertificateChain = <<RSAKey1, CertBlock(LeafCert)>>
    /\ tlsResp.data.WarningValidation = "Failed to parse private key"
    /\ tlsResp.data.ValidCert /\ ~tlsResp.data.ValidChain
    /\ tlsResp.data.Subject = "CN=leaf"

\* the keys listed by a view
KeysOfView(v) == {v[i].key : i \in 1..Len(v)}

\* C16: in every answer of handleStatsTop, the view of each of the three
\* mappings has at most 50 entries, lists no key twice, gives each key the
\* count the mapping read from the store holds for it, is in non-increasing
\* order of count, and leaves out no key with a higher count than a key it
\* lists.
C16_TopN ==
    statsResp.op = "top" =>
        \A kind \in Kinds :
            LET v == statsResp.top[kind]
                m == statsResp.src[kind] IN
            /\ Len(v) <= TopLimit
            /\ \A i \in 1..Len(v) : v[i].key \in DOMAIN m /\ v[i].count = m[v[i].key]
            /\ \A i, j \in 1..Len(v) : i < j => v[i].key # v[j].key /\ v[i].count >= v[j].count
            /\ \A k \in DOMAIN m \ KeysOfView(v) : \A i \in 1..Len(v) : m[k] <= v[i].count

\* a mapping of more than 50 keys was cut to 50, between two keys of the
\* same count
C16_Witness ==
    /\ statsResp.op = "top"
    /\ \E kind \in Kinds :
         LET v == statsResp.top[kind]
             m == statsResp.src[kind] IN
         /\ Cardinality(DOMAIN m) > TopLimit
         /\ Len(v) = TopLimit
         /\ \E k \in DOMAIN m \ KeysOfView(v) : m[k] = v[TopLimit].count
         /\ v[1].count > v[TopLimit].count

\* the parameters of the answered history request: is the unit one of the
\* four, is a timestamp in the layout, the two instants
UnitKnown == statsResp.query.time_unit \in UnitNames
StartParses == statsResp.query.start_time.layout = "rfc3339"
EndParses == statsResp.query.end_time.layout = "rfc3339"
StartOf == statsResp.query.start_time.t
EndOf == statsResp.query.end_time.t

\* C17: a history request with a known unit and two parseable timestamps is
\* answered with exactly one window when start and end are the same instant
\* and with a client error when the end is before the start; a request with
\* an unknown unit or an unparseable start or end is answered with a client
\* error without the counter store having been queried.
C17_HistoryRejects ==
    statsResp.op = "history" =>
        /\ (UnitKnown /\ StartParses /\ EndParses /\ StartOf = EndOf) =>
              (statsResp.status = "StatusOK" /\ Len(statsResp.data) = 1)
        /\ (UnitKnown /\ StartParses /\ EndParses /\ EndOf < StartOf) =>
              (statsResp.status = "StatusBadRequest" /\ statsResp.data = <<>>)
        /\ (~UnitKnown \/ ~StartParses \/ ~EndParses) =>
              (statsResp.status = "StatusBadRequest" /\ ~statsResp.queried
               /\ statsResp.data = <<>>)

\* a request with start equal to end was answered with the one window, in
\* which a query had been counted
C17_Witness ==
    /\ statsResp.op = "history"
    /\ UnitKnown /\ StartParses /\ EndParses /\ StartOf = EndOf
    /\ statsResp.status = "StatusOK"
    /\ Len(statsResp.data) = 1
    /\ statsResp.data[1] > 0

\* the seconds of a unit
SecondsOf(name) ==
    CASE name = "seconds" -> 1
      [] name = "minutes" -> 60
      [] name = "hours" -> 60 * 60
      [] OTHER -> 24 * 60 * 60

\* how many unit-sized windows lie across [start, end]: the one that starts
\* at start, and one more for every whole unit after start that is still
\* before end
WindowsAcross(unit, start, end) ==
    Cardinality({i \in 0..(MaxWindows + 1) : i = 0 \/ start + i * unit < end})

\* C18: a history of hours from T to T+3h has exactly 3 buckets; every
\* accepted history has one bucket for every unit-sized window across
\* [start, end], in time order, each holding the number of queries counted
\* in its window, zero included; start equal to end gives one window by the
\* same count.
C18_Buckets ==
    (statsResp.op = "history" /\ UnitKnown /\ StartParses /\ EndParses) =>
        LET unit == SecondsOf(statsResp.query.time_unit)
            data == statsResp.data IN
        /\ (statsResp.query.time_unit = "hours" /\ EndOf = StartOf + 3 * 60 * 60) =>
              (statsResp.status = "StatusOK" /\ Len(data) = 3)
        /\ StartOf <= EndOf => statsResp.status = "StatusOK"
        /\ statsResp.status = "StatusOK" =>
              /\ Len(data) = WindowsAcross(unit, StartOf, EndOf)
              /\ \A i \in 1..Len(data) :
                    data[i] = SumOver({t \in QueryTimes :
                                         /\ StartOf + (i - 1) * unit <= t
                                         /\ t < StartOf + i * unit}, statsResp.at)

\* a history of hours from T to T+3h was answered with 3 buckets, one of
\* them of a window without traffic
C18_Witness ==
    /\ statsResp.op = "history"
    /\ statsResp.status = "StatusOK"
    /\ statsResp.query.time_unit = "hours"
    /\ EndOf = StartOf + 3 * 60 * 60
    /\ Len(statsResp.data) = 3
    /\ \E i, j \in 1..3 : i < j /\ statsResp.data[i] > 0 /\ statsResp.data[j] = 0

\* every counter of the store is zero
AllZero(st) ==
    /\ \A kind \in Kinds : \A k \in DOMAIN st[kind] : st[kind][k] = 0
    /\ st.dns_queries = 0
    /\ st.blocked_filtering = 0
    /\ \A t \in QueryTimes : st.at[t] = 0

\* C19: as long as no query is counted after a reset request, every counter
\* of the store is zero and every answer of handleStatsTop and handleStats
\* read from it shows no positive count; from such a state no operation of
\* the handlers changes the store (a second reset included), only a counted
\* query does.
C19_Purge ==
    [][/\ ~stats'.dirty => AllZero(stats')
       /\ (statsResp'.op = "top" /\ statsResp'.clean) =>
             \A kind \in Kinds : \A i \in 1..Len(statsResp'.top[kind]) :
                 statsResp'.top[kind][i].count = 0
       /\ (statsResp'.op = "stats" /\ statsResp'.clean) =>
             /\ statsResp'.summed.dns_queries = 0
             /\ statsResp'.summed.blocked_filtering = 0
       /\ (~stats.dirty /\ stats' # stats) => stats'.counted = stats.counted + 1]_vars

\* handleStatsTop answered from a store that had been reset, with entries
\* whose counts are zero
C19_Witness ==
    /\ statsResp.op = "top"
    /\ statsResp.clean
    /\ \E kind \in Kinds : Len(statsResp.top[kind]) > 0

\* C20: a call of checkDNS whose exchange returned a reply with no answer
\* record, or with more than one, returns an error, whatever the records
\* are, and the result map never says OK for a server whose last check was
\* such a call.
C20_WrongAnswerCount ==
    \A i \in 1..Len(probeResp.checks) :
        LET c == probeResp.checks[i] IN
        (c.net.upstream /\ c.net.exchange /\ Len(c.net.answer) # 1) =>
            /\ c.err # Nil
            /\ (\A j \in (i + 1)..Len(probeResp.checks) : probeResp.checks[j].host # c.host)
                  => probeResp.result[c.host].text # "OK"

\* a server answered the test query with two records, the first of them
\* the expected A record, and another server with none
C20_Witness ==
    /\ probeResp.op = "test"
    /\ \E i, j \in 1..Len(probeResp.checks) :
         /\ Len(probeResp.checks[i].net.answer) > 1
         /\ probeResp.checks[i].net.answer[1] = [rrtype |-> "A", a |-> GoodAddress]
         /\ probeResp.result[probeResp.checks[i].host].text # "OK"
         /\ probeResp.checks[j].net.exchange
         /\ Len(probeResp.checks[j].net.answer) = 0
         /\ probeResp.result[probeResp.checks[j].host].text # "OK"

\* C21: config.TLS is replaced by the settings of a configure request only
\* once the configuration write of that request has succeeded: a request
\* answered with the error of the write leaves in config.TLS the settings
\* that were there when the request compared its own with them.
C21_BaselineAfterWrite ==
    [][(tlsPc = "tls_write" /\ tlsResp'.err = "config") =>
          tlsConfigSettings(configTLS') = tlsConfigSettings(tlsLoc.before)]_vars

\* C22: every goroutine that restarts the listener gets through: it
\* broadcasts, calls the shutdown, and releases the lock of the condition
\* variable, whatever the clients of the server do; the lock is never held
\* for ever.
C22_RestartTerminates ==
    /\ \A t \in 1..MaxTLSRequests :
          (t <= Len(tasks)) ~> (t <= Len(tasks) /\ tasks[t].pc = "done")
    /\ (httpsServer.lock # 0) ~> (httpsServer.lock = 0)

\* the web address of a request differs from the one in use before it
WebDiffers(r) ==
    r.newSettings.Web.IP # r.before.BindHost \/ r.newSettings.Web.Port # r.before.BindPort

\* C23: an install-configure request starts the goroutine that shuts the
\* plain HTTP server down exactly when it was answered with success and its
\* web host or port differs from the one in use; the server is shut down by
\* that goroutine, after the response, and never by the handler: a request
\* answered with an error shuts nothing down.
C23_InstallShutdown ==
    [][/\ installResp' # installResp =>
            (Len(installTasks') # Len(installTasks)
                <=> (installResp'.err = "none" /\ WebDiffers(installResp')))
       /\ installResp' # installResp => httpServer' = httpServer
       /\ httpServer' # httpServer =>
            /\ httpServer'.by <= installResp.req
            /\ installResp' = installResp]_vars

\* C24: under Spec, an Add goes through its steps in this order.  It is
\* past the duplicate check with a new ID before it fetches, and nothing is
\* written or appended by then; it writes the file of its ID only with a
\* fetched list of at least one rule, and has appended nothing by then; an
\* Add that ends at the fetch, the checks or the save (a list of zero rules
\* included) writes no file and appends nothing; and the collection grows
\* only by the filter of an Add whose file is written, put at the end.
C24_AddOrder ==
    [][\A w \in SeqWorkers :
          /\ (pc[w] = "idle" /\ pc'[w] = "add_fetch") =>
                /\ ~(\E i \in 1..Len(Filters) : Filters[i].URL = loc'[w].url)
                /\ loc'[w].f.ID = nextFilterID /\ nextFilterID' > nextFilterID
                /\ loc'[w].f.ID \notin files
                /\ files' = files /\ Filters' = Filters
          /\ (pc[w] = "add_fetch" /\ pc'[w] = "add_append") =>
                /\ loc'[w].f.RulesCount > 0
                /\ files' = files \cup {loc[w].f.ID}
                /\ Filters' = Filters
          /\ (pc[w] = "add_fetch" /\ pc'[w] = "idle") =>
                /\ resp'.err # "none"
                /\ files' = files /\ Filters' = Filters
          /\ Len(Filters') > Len(Filters) =>
                /\ pc[w] = "add_append"
                /\ Filters' = Append(Filters, loc[w].f)
                /\ loc[w].f.ID \in files
                /\ loc[w].f.RulesCount > 0]_vars

\* an Add has appended its filter, whose file is written, after another
\* Add had taken the ID before its own
C24_Witness ==
    /\ resp.op = "add" /\ resp.ok
    /\ Len(Filters) > 0
    /\ Filters[Len(Filters)].URL = resp.url
    /\ Filters[Len(Filters)].ID \in files
    /\ Filters[Len(Filters)].ID > 1

\* what C25 asks of a probe to call the server good
ProbeOK(net) ==
    /\ net.upstream
    /\ net.exchange
    /\ Len(net.answer) = 1
    /\ (net.answer[1].rrtype # "A" \/ net.answer[1].a = GoodAddress)

\* C25: every call of checkDNS returns: nil exactly when the upstream was
\* made, the exchange gave a reply, the reply has one answer record and
\* the record is not an A record or is one with the expected address; an
\* error with a text that is not empty in every other case.
C25_Classification ==
    \A i \in 1..Len(probeResp.checks) :
        LET c == probeResp.checks[i] IN
        /\ c.err = Nil <=> ProbeOK(c.net)
        /\ c.err # Nil => c.err.text # ""

\* one request met a server that answered with one CNAME record, found
\* good, and a server that answered with one A record of another address
C25_Witness ==
    /\ probeResp.op = "test"
    /\ \E i, j \in 1..Len(probeResp.checks) :
         /\ probeResp.checks[i].net.answer = <<[rrtype |-> "CNAME", a |-> ""]>>
         /\ probeResp.checks[i].net.exchange
         /\ probeResp.checks[i].err = Nil
         /\ probeResp.checks[j].net.exchange
         /\ Len(probeResp.checks[j].net.answer) = 1
         /\ probeResp.checks[j].net.answer[1].rrtype = "A"
         /\ probeResp.checks[j].net.answer[1].a # GoodAddress
         /\ probeResp.checks[j].err # Nil

\* the hosts of the last test request, the words of its body
ProbedHosts == SelectSeq(probeResp.body, LAMBDA x : x # " ")

\* the entry the map must hold for a call of checkDNS
EntryOf(c) == IF ProbeOK(c.net) THEN ProbeError("OK", "") ELSE c.err

\* C26 as stated: for a list that is not empty the map has one entry for
\* each distinct host and no other, each host is probed exactly once, and
\* its entry is OK when that probe succeeded, its error otherwise.
C26_ProbedOnce ==
    (probeResp.op = "test" /\ Len(ProbedHosts) > 0) =>
       /\ DOMAIN probeResp.result = {ProbedHosts[i] : i \in 1..Len(ProbedHosts)}
       /\ \A h \in DOMAIN probeResp.result :
            /\ Cardinality({i \in 1..Len(probeResp.checks) : probeResp.checks[i].host = h}) = 1
            /\ \A i \in 1..Len(probeResp.checks) :
                 probeResp.checks[i].host = h =>
                    /\ probeResp.result[h] = EntryOf(probeResp.checks[i])
                    /\ probeResp.result[h].text # ""

\* C26, amended: for a list that is not empty the map has one entry for
\* each distinct host and no other; checkDNS is called once for each
\* element of the list, in the order of the list and whatever the earlier
\* calls returned, so a host that is listed k times is probed k times; the
\* entry of a host is OK when the call for its last occurrence succeeded,
\* the error of that call otherwise.
C26_ResultMap ==
    (probeResp.op = "test" /\ Len(ProbedHosts) > 0) =>
       /\ probeResp.status = "StatusOK"
       /\ DOMAIN probeResp.result = {ProbedHosts[i] : i \in 1..Len(ProbedHosts)}
       /\ Len(probeResp.checks) = Len(ProbedHosts)
       /\ \A i \in 1..Len(ProbedHosts) :
            /\ probeResp.checks[i].host = ProbedHosts[i]
            /\ (\A j \in (i + 1)..Len(ProbedHosts) : ProbedHosts[j] # ProbedHosts[i]) =>
                  /\ probeResp.result[ProbedHosts[i]] = EntryOf(probeResp.checks[i])
                  /\ probeResp.result[ProbedHosts[i]].text # ""

\* a host was listed twice; its first probe failed, its second succeeded
\* and its entry is OK
C26_Witness ==
    /\ probeResp.op = "test"
    /\ Len(probeResp.checks) = 2
    /\ probeResp.checks[1].host = probeResp.checks[2].host
    /\ probeResp.checks[1].err # Nil
    /\ probeResp.checks[2].err = Nil
    /\ probeResp.result[probeResp.checks[1].host].text = "OK"

\* the bytes of the private-key block of the key text that was validated
ValidatedKey == KeyBlocksOf(tlsResp.data.PrivateKey)[1].der

\* C27: a validate request with a private-key block reports the key by the
\* first of PKCS#1, PKCS#8 and SEC1 that parses its bytes: RSA when PKCS#1
\* parses; else, when PKCS#8 parses, RSA or ECDSA as the inner key is, and
\* an error for any other inner key, SEC1 not being tried; else ECDSA when
\* SEC1 parses; and the error "failed to parse private key" exactly when
\* none of the three parses.
C27_KeyFormats ==
    (Validated /\ KeyBlocksOf(tlsResp.data.PrivateKey) # <<>>) =>
       LET der == ValidatedKey
           d == tlsResp.data
           parsed == parsePrivateKey(der)
           p1 == der.kind = "pkcs1"
           p8 == der.kind = "pkcs8" \/ "pkcs8" \in der.also
           ec == der.kind = "sec1" \/ "sec1" \in der.also IN
       /\ d.ValidKey <=> parsed.err = ""
       /\ d.ValidKey => d.KeyType = parsed.keytype
       /\ ~d.ValidKey => (d.KeyType = "" /\ d.WarningValidation = "Failed to parse private key")
       /\ p1 => (d.ValidKey /\ d.KeyType = "RSA")
       /\ (~p1 /\ p8 /\ der.alg \in {"RSA", "ECDSA"}) => (d.ValidKey /\ d.KeyType = der.alg)
       /\ (~p1 /\ p8 /\ der.alg \notin {"RSA", "ECDSA"}) =>
             /\ ~d.ValidKey
             /\ parsed.err = "tls: found unknown private key type in PKCS#8 wrapping"
       /\ (~p1 /\ ~p8 /\ ec) => (d.ValidKey /\ d.KeyType = "ECDSA")
       /\ parsed.err = "tls: failed to parse private key" <=> (~p1 /\ ~p8 /\ ~ec)

\* bytes that parse as PKCS#1 and as SEC1 were reported as an RSA key
C27_Witness ==
    /\ Validated
    /\ KeyBlocksOf(tlsResp.data.PrivateKey) # <<>>
    /\ ValidatedKey.kind = "pkcs1"
    /\ "sec1" \in ValidatedKey.also
    /\ tlsResp.data.ValidKey
    /\ tlsResp.data.KeyType = "RSA"

\* C28: with reset requests served while handleStatsTop is at work, the
\* three views of an answer are made from the three mappings as the store
\* held them at the one instant the handler read it, before the reset or
\* after it: what was read does not change while the views are made, and
\* every entry of every view has the count that was read for its key.  The
\* two counters of an answer of handleStats are those of the store at the
\* one instant it was read.
C28_NoTornRead ==
    [][/\ (statsPc = "idle" /\ statsPc' = "Domains") =>
             statsLoc'.s = [k \in Kinds |-> stats[k]]
       /\ (statsPc \in Kinds /\ statsPc' \in Kinds) =>
             /\ statsLoc'.s = statsLoc.s
             /\ \A k \in Kinds \ {statsPc} : statsLoc'.json[k] = statsLoc.json[k]
       /\ (statsPc = "Clients" /\ statsPc' = "idle") =>
             /\ statsResp'.op = "top"
             /\ statsResp'.src = statsLoc.s
             /\ \A k \in Kinds \ {"Clients"} : statsResp'.top[k] = statsLoc.json[k]
             /\ \A k \in Kinds :
                  /\ {statsResp'.top[k][i].key : i \in 1..Len(statsResp'.top[k])}
                        \subseteq DOMAIN statsLoc.s[k]
                  /\ \A i \in 1..Len(statsResp'.top[k]) :
                        statsResp'.top[k][i].count = statsLoc.s[k][statsResp'.top[k][i].key]
       /\ (statsResp'.op = "stats" /\ statsResp' # statsResp) =>
             /\ statsResp'.summed.dns_queries = stats.dns_queries
             /\ statsResp'.summed.blocked_filtering = stats.blocked_filtering]_vars

\* handleStatsTop has answered with positive counts of queried and of
\* blocked domains from a store that was reset while it made its views
C28_Witness ==
    /\ statsResp.op = "top"
    /\ ~stats.dirty
    /\ AllZero(stats)
    /\ \E i \in 1..Len(statsResp.top["Domains"]) : statsResp.top["Domains"][i].count > 0
    /\ \E i \in 1..Len(statsResp.top["Blocked"]) : statsResp.top["Blocked"][i].count > 0

\* C29: whenever handleStatsTop is about to make a view of a mapping it has
\* read, the view does not depend on the order in which the range over the
\* mapping yields its keys: two calls of gen on the same mapping give the
\* same sequence of keys, hence the same keys after the cut to 50.
C29_Deterministic ==
    statsPc \in Kinds =>
        \A o1, o2 \in IterOrders(statsLoc.s[statsPc]) :
            gen(statsLoc.s[statsPc], o1) = gen(statsLoc.s[statsPc], o2)

\* C30: the response to an Add request is either an error or the line
\* "OK n rules", never both and never neither; the line is written only
\* with the filter of the request in the collection, n being its rule
\* count.
C30_OneOutcome ==
    resp.op = "add" =>
        /\ resp.ok <=> resp.err = "none"
        /\ resp.ok =>
              \E i \in 1..Len(Filters) :
                  Filters[i].URL = resp.url /\ Filters[i].RulesCount = resp.n

\* C31: the step that serves a validate request, whatever it answers,
\* leaves config.TLS, the HTTPS server, the goroutines and the log as they
\* are and does not get to the configuration write; config.TLS changes and
\* the configuration write is reached only in a step that serves a
\* configure request, and a goroutine is started only by the handler of
\* a configure request.
C31_ValidateFrame ==
    [][/\ (tlsIn.op = "validate" /\ tlsIn'.op = "none") =>
             /\ tlsResp'.op = "validate"
             /\ configTLS' = configTLS
             /\ httpsServer' = httpsServer
             /\ tasks' = tasks
             /\ events' = events
             /\ tlsPc = "idle" /\ tlsPc' = "idle"
       /\ configTLS' # configTLS => tlsIn.op = "configure"
       /\ (tlsPc' = "tls_write" /\ tlsPc # "tls_write") => tlsIn.op = "configure"
       /\ Len(tasks') # Len(tasks) =>
             /\ tlsPc = "tls_spawn"
             /\ tlsResp.op = "configure"]_vars

\* a validate request was answered with a valid certificate and key on
\* another port than that of config.TLS, and no goroutine exists
C31_Witness ==
    /\ Validated
    /\ tlsResp.data.ValidCert /\ tlsResp.data.ValidKey
    /\ tlsResp.data.PortHTTPS # configTLS.PortHTTPS
    /\ tlsResp.data.CertificateChain # configTLS.CertificateChain
    /\ tasks = <<>>

\* C32: a request that is answered with the error of the check of the web
\* address, made only when host or port differ from those in use, or with
\* the error of the check of the DNS address, leaves every field of the
\* configuration as it was (first-run flag, web and DNS host and port,
\* credentials), has not called startDNSServer, starts no goroutine and
\* leaves the listener as it is.
C32_RejectedFrame ==
    [][(installResp' # installResp /\ installResp'.err \in {"web", "dns"}) =>
          /\ installResp'.err = "web" => WebDiffers(installResp')
          /\ config' = config
          /\ config' = installResp'.before
          /\ ~installResp'.startDNS
          /\ installTasks' = installTasks
          /\ httpServer' = httpServer]_vars

\* on the first run a request for another web port, with credentials and
\* a DNS port that cannot be listened on, was rejected
C32_Witness ==
    /\ installResp.err = "dns"
    /\ WebDiffers(installResp)
    /\ installResp.newSettings.Username # config.AuthName
    /\ installResp.newSettings.DNS.Port # 0
    /\ config.firstRun
    /\ config = installResp.before
    /\ ~httpServer.closed

====
